---- MODULE Spec2Model ----
(***************************************************************************)
(* Model of the operation router of MSBWizard                             *)
(* (src/common/super/manipulator.py, class Manipulator): the managing     *)
(* object, the operations table, the method registry, and process_request *)
(* with its single-request and batch paths.                               *)
(*                                                                         *)
(* Python values are named by strings.  A dict key that is missing is     *)
(* the pseudo-value Absent, which is not a Python value.                  *)
(***************************************************************************)
EXTENDS Integers, Sequences, FiniteSets, TLC

VARIABLES
  managing_object,    \* Manipulator._managing_object
  strict_type_check,  \* Manipulator._strict_type_check
  base_classes,       \* Manipulator._base_classes, a list of types
  operations,         \* Manipulator._operations, an insertion-ordered dict
  registry,           \* Manipulator._registry, type -> set of methods
  dicts,              \* heap: contents of the attribute mappings
  lists,              \* heap: contents of the lists nested in them
  callerView,         \* what the caller last put in its attribute mappings
  handlerView,        \* what the handler last saw or put in what it received
  objects,            \* heap: how many changes each target object has undergone
  pc,                 \* position of the (single-threaded) caller
  request,            \* the request of the call that returned last
  ret,                \* what that call returned or raised
  calls,              \* the payloads that call passed to execute, in order
  plan,               \* a caller that issues the entries of a batch one by one
  setup,              \* the last registration or query call and how it ended
  log,                \* the operations given at construction or left by the last
                      \* clearing, and the registrations that succeeded since
  project,            \* the WizardProject: its blocks and its connections
  ui,                 \* the UIManager: the scene and the items it tracks
  window,             \* MSBWizardMainWindow: the signal connections it has made
  resp                \* the response of the last handler method or window slot

routerVars == <<managing_object, strict_type_check, base_classes, operations, registry>>
heapVars == <<dicts, lists, callerView, handlerView, objects>>
callVars == <<pc, request, ret, calls, plan>>
vars == <<managing_object, strict_type_check, base_classes, operations, registry,
          dicts, lists, callerView, handlerView, objects, pc, request, ret, calls, plan,
          setup, log, project, ui, window, resp>>
appVars == <<project, ui, window, resp>>

----------------------------------------------------------------------------
(* Bounds *)

MaxBatch == 2       \* entries in a batch request
MaxListLen == 2     \* length of a list nested in an attribute mapping
MaxChanges == 2     \* changes that handlers make to one target object
MaxRegistrations == 2   \* successful register_operation calls between two clearings
MaxItems == 4       \* graphics items that a scene holds
MaxConnections == 3 \* connections of one signal of the window to its slot

----------------------------------------------------------------------------
(* Python values *)

Absent == "Absent"
None == "None"
PyTrue == "True"
PyFalse == "False"

StrVals == {"", "manage", "generate", "noop", "m"}
IntVals == {"int:7", "int:0"}
BoolVals == {PyTrue, PyFalse}
ListAddr == {"L1"}
FreshDict == "{}"                   \* the literal {} of request.get("attributes", {})
CallerDicts == {"D0", "D1", "D2"}   \* mappings the caller owns
CopyAddr(i) == <<"K1", "K2", "K3", "K4", "K5">>[i]   \* where call i's copy is put
CopyDicts == {CopyAddr(i) : i \in 1..MaxBatch}
DictAddr == CallerDicts \cup CopyDicts
\* proj: a project; cont: an empty container (len() = 0, so it is falsy)
Objects == {"proj", "cont"}

AttrKeys == {"action", "items"}
EmptyContent == [k \in AttrKeys |-> Absent]

TypeOf(v) ==
  CASE v = None -> "NoneType"
    [] v \in StrVals -> "str"
    [] v \in IntVals -> "int"
    [] v \in BoolVals -> "bool"
    [] v \in ListAddr -> "list"
    [] v = FreshDict \/ v \in DictAddr -> "dict"
    [] v = "proj" -> "WizardProject"
    [] v = "cont" -> "WizardContainer"
    [] v = "H1" -> "BlockManager"
    [] v = "H2" -> "CodeGenerator"
    [] v = "H3" -> "BlockManager"
    [] v = "H4" -> "UIManager"
    [] OTHER -> "object"

DictContent(d) == IF d = FreshDict THEN EmptyContent ELSE dicts[d]

\* bool(v)
Truthy(v) ==
  CASE v \in {None, "", "int:0", PyFalse, "cont"} -> FALSE
    [] v \in ListAddr -> Len(lists[v]) > 0
    [] TypeOf(v) = "dict" -> \E k \in AttrKeys : DictContent(v)[k] # Absent
    [] OTHER -> TRUE

\* hash(v) succeeds
Hashable(v) == TypeOf(v) \notin {"list", "dict"}

----------------------------------------------------------------------------
(* Types, handlers and the method registry *)

\* H1 and H3 are two instances of BlockManager, H2 is a CodeGenerator,
\* H4 is a UIManager
Handlers == {"H1", "H2", "H3", "H4"}

\* names that inspect.getmembers(instance, predicate=inspect.ismethod) yields
InstanceMembers(h) ==
  CASE h \in {"H1", "H3"} -> {"__init__", "execute", "_manage_wizardblock", "_manage_connections"}
    [] h = "H2" -> {"__init__", "execute", "_generate_wizardproject"}
    [] h = "H4" -> {"__init__", "execute", "_render_wizardproject", "_render_wizardblock",
                    "_add_wizardblock", "_remove_wizardblock", "_refresh_wizardblock",
                    "_render_connection", "_update_position"}
    [] OTHER -> {}

\* names that inspect.getmembers(cls, isfunction or ismethod) yields
ClassMembers(cls) ==
  CASE cls = "WizardProject" -> {"__init__", "to_dict", "create_item"}
    [] cls = "WizardContainer" -> {"__init__", "__len__", "add", "remove"}
    [] OTHER -> {}

DunderNames == {"__init__", "__len__"}
UnderscoreNames == DunderNames \cup {"_manage_wizardblock", "_manage_connections",
                                     "_generate_wizardproject"}

\* methods = {name: method ... if not name.startswith('__')}: the methods are
\* bound methods, each with the instance it was taken from as its __self__
HandlerMethods(h) == {[name |-> n, self |-> h] : n \in InstanceMembers(h) \ DunderNames}

\* if name.startswith('_'): continue; the members of a class are plain functions
BaseClassMethods(cls) == {[name |-> n, self |-> None] : n \in ClassMembers(cls) \ UnderscoreNames}

\* dict lookups on the operations table (a sequence of [name, handler])
HasOp(ops, name) == \E i \in 1..Len(ops) : ops[i].name = name
OpIndex(ops, name) == CHOOSE i \in 1..Len(ops) : ops[i].name = name
\* a lookup that falls back on the first binding of the table
OpsGet_FirstHandler(ops, name) ==
  IF HasOp(ops, name) THEN ops[OpIndex(ops, name)].handler
  ELSE IF Len(ops) > 0 THEN ops[1].handler ELSE None
OpsGet(ops, name) == IF HasOp(ops, name) THEN ops[OpIndex(ops, name)].handler ELSE None
\* a table that keeps the earlier binding of a name next to the new one
OpsSet_Append(ops, name, h) == Append(ops, [name |-> name, handler |-> h])
\* ops[name] = handler
OpsSet(ops, name, h) ==
  IF HasOp(ops, name)
  THEN [ops EXCEPT ![OpIndex(ops, name)] = [name |-> name, handler |-> h]]
  ELSE Append(ops, [name |-> name, handler |-> h])

SeqToSet(s) == {s[i] : i \in 1..Len(s)}

\* Manipulator._get_method_registry
GetMethodRegistry(ops, bases) ==
  LET htypes == {TypeOf(ops[i].handler) : i \in 1..Len(ops)}
      lastOf(t) == ops[CHOOSE i \in 1..Len(ops) :
                        /\ TypeOf(ops[i].handler) = t
                        /\ \A j \in (i+1)..Len(ops) : TypeOf(ops[j].handler) # t].handler
      btypes == {c \in SeqToSet(bases) : BaseClassMethods(c) # {}}
  IN [t \in htypes \cup btypes |->
        IF t \in btypes THEN BaseClassMethods(t) ELSE HandlerMethods(lastOf(t))]

----------------------------------------------------------------------------
(* Construction *)

\* Manipulator.__init__
ManipulatorInit(mo, bases, ops, strict) ==
  /\ managing_object = mo
  /\ strict_type_check = strict
  /\ base_classes = IF mo # None /\ TypeOf(mo) \notin SeqToSet(bases)
                    THEN Append(bases, TypeOf(mo)) ELSE bases
  /\ operations = ops
  /\ registry = GetMethodRegistry(operations, base_classes)

NoReturn == [kind |-> "none",
             env |-> [status |-> Absent, object |-> Absent, method |-> Absent,
                      result |-> Absent, error |-> Absent],
             results |-> <<>>, exc |-> ""]
NoRequest == [isdict |-> FALSE, nd |-> None, operation |-> Absent, obj |-> Absent,
              method |-> Absent, attributes |-> Absent, batch |-> <<>>]

\* what a mapping holds, with each nested list replaced by its content
DeepView(content) ==
  [k \in AttrKeys |->
     IF content[k] \in ListAddr THEN <<"list">> \o lists[content[k]] ELSE <<content[k]>>]

InitDicts ==
  [d \in DictAddr |->
     CASE d = "D1" -> [EmptyContent EXCEPT !["action"] = "create"]
       [] d = "D2" -> [EmptyContent EXCEPT !["items"] = "L1"]
       [] OTHER -> EmptyContent]
InitLists == [l \in ListAddr |-> <<"x">>]

HeapInit ==
  /\ dicts = InitDicts
  /\ lists = InitLists
  /\ callerView = [d \in CallerDicts |-> DeepView(dicts[d])]
  /\ handlerView = [d \in CopyDicts |-> [k \in AttrKeys |-> <<Absent>>]]
  /\ objects = [o \in Objects |-> 0]

\* no batch is being issued entry by entry
NoPlan == [active |-> FALSE, batch |-> NoRequest, outs |-> <<>>, i |-> 0,
           expect |-> NoReturn, after |-> [o \in Objects |-> 0], router |-> <<>>,
           got |-> <<>>]

CallInit ==
  /\ pc = "idle"
  /\ request = NoRequest
  /\ ret = NoReturn
  /\ calls = <<>>
  /\ plan = NoPlan

\* no registration or query call has been made
NoSetup == [call |-> "", args |-> <<>>, raised |-> "", methods |-> {}, names |-> <<>>]
SetupInit(ops) ==
  /\ setup = NoSetup
  /\ log = [base |-> ops, regs |-> <<>>]

----------------------------------------------------------------------------
(* The application objects: the project, the canvas and the main window *)

BlockNames == {"Block1", "Block2", "Block3"}
BlockPairs == BlockNames \X BlockNames
Positions == {<<0, 0>>, <<10, 20>>}
MenuActions == {"actionNewProject", "actionOpenProject", "actionSaveProject",
                "actionSaveProjectAs", "actionGenerateCode", "actionPreferences"}

\* a QGraphicsItem is named by a number, a block item (QGraphicsRectItem) by a
\* positive one and a line (QGraphicsLineItem) by a negative one; NoItem is
\* no item
NoItem == 0
Items == {i \in (0 - MaxItems)..MaxItems : i # NoItem}
BlockItemsIn(scene) == {i \in scene : i > 0}
\* a scene within the bound
Fits(scene) == scene \subseteq Items /\ Cardinality(scene) <= MaxItems

\* WizardProject(name="Untitled Project"): no blocks, connections = {}.
\* blocks is the set of names in project.blocks; bconn[n] is the connections
\* list and pos[n] the position of the block named n; ckeys is the set of keys
\* of project.connections and conns[s] is project.connections[s]
NewProject ==
  [blocks |-> {}, bconn |-> [n \in BlockNames |-> <<>>],
   pos |-> [n \in BlockNames |-> <<0, 0>>],
   ckeys |-> {}, conns |-> [n \in BlockNames |-> <<>>]]

\* UIManager(manipulator, scene): nothing tracked, on the scene it is given
NewUI(scene) ==
  [scene |-> scene,
   block_items |-> [n \in BlockNames |-> NoItem],
   lines |-> [k \in BlockPairs |-> NoItem]]

\* the signal connections before setup_connections: connected[sig] is how
\* often sig is connected to its slot, stored is _action_connections
NewWindow ==
  [triggered |-> [a \in MenuActions |-> 0], stored |-> {},
   clicked |-> 0, tabCloseRequested |-> 0, project_updated |-> 0]

\* no handler method or slot has been called
NoResp == [call |-> "", name |-> "", action |-> "", source |-> "", target |-> "",
           attrs |-> "", position |-> [kind |-> "absent", val |-> <<>>],
           status |-> FALSE, method |-> "", error |-> "", result |-> "None"]

AppInit ==
  /\ project = NewProject
  /\ ui = NewUI({})
  /\ window = NewWindow
  /\ resp = NoResp

InitOperations == {<<>>, <<[name |-> "manage", handler |-> "H1"]>>}
InitBaseClasses == {<<>>, <<"WizardProject">>}

Init ==
  /\ \E mo \in {None, "proj"}, bases \in InitBaseClasses,
        ops \in InitOperations, strict \in BOOLEAN :
       ManipulatorInit(mo, bases, ops, strict)
  /\ HeapInit
  /\ CallInit
  /\ AppInit
  /\ SetupInit(<<>>)

----------------------------------------------------------------------------
(* Requests, envelopes and what a handler's execute may do *)

\* A request dict: the values under its four standard keys (Absent when the
\* key is missing) and, under "batch", its other entries in iteration order.
\* A value that is not a dict has isdict = FALSE and is named by nd.
SubRequest(op, ob, me, at) ==
  [isdict |-> TRUE, nd |-> None, operation |-> op, obj |-> ob, method |-> me,
   attributes |-> at]
NonDict(v) ==
  [isdict |-> FALSE, nd |-> v, operation |-> Absent, obj |-> Absent,
   method |-> Absent, attributes |-> Absent]
\* a dict value met where a sub-request is expected; the attribute mappings
\* of this model hold none of the four standard keys
AsSub(v) == IF TypeOf(v) = "dict" THEN SubRequest(Absent, Absent, Absent, Absent)
            ELSE NonDict(v)
Request(op, ob, me, at, batch) ==
  [isdict |-> TRUE, nd |-> None, operation |-> op, obj |-> ob, method |-> me,
   attributes |-> at, batch |-> batch]
NonDictRequest(v) ==
  [isdict |-> FALSE, nd |-> v, operation |-> Absent, obj |-> Absent,
   method |-> Absent, attributes |-> Absent, batch |-> <<>>]
TopAsSub(req) == SubRequest(req.operation, req.obj, req.method, req.attributes)

\* d.get(key)
PyGet(v) == IF v = Absent THEN None ELSE v

\* request.items(), the standard keys first
Entries(req) ==
  (IF req.operation # Absent THEN <<[id |-> "operation", sub |-> AsSub(req.operation)]>> ELSE <<>>)
  \o (IF req.obj # Absent THEN <<[id |-> "obj", sub |-> AsSub(req.obj)]>> ELSE <<>>)
  \o (IF req.method # Absent THEN <<[id |-> "method", sub |-> AsSub(req.method)]>> ELSE <<>>)
  \o (IF req.attributes # Absent THEN <<[id |-> "attributes", sub |-> AsSub(req.attributes)]>> ELSE <<>>)
  \o req.batch

NoEnvelope == [status |-> Absent, object |-> Absent, method |-> Absent,
               result |-> Absent, error |-> Absent]
Envelope(st, ob, me, re, er) ==
  [status |-> st, object |-> ob, method |-> me, result |-> re, error |-> er]
\* {"status": False, "object": ob, "method": None, "result": None, "error": msg}
Failure(ob, msg) == Envelope(PyFalse, ob, None, None, msg)

\* What one execute call does: raise, or return a value (a dict when isdict,
\* with Absent for a key it lacks; "echo" as object is the object it was given);
\* mutate says what it does to the attributes it received, effect whether it
\* changes the object it was given.
Outcome(raises, isdict, st, ob, me, re, er, mu) ==
  [raises |-> raises, msg |-> "boom", isdict |-> isdict, status |-> st, object |-> ob,
   method |-> me, result |-> re, error |-> er, mutate |-> mu, effect |-> FALSE]
OkOutcome == Outcome(FALSE, TRUE, PyTrue, "echo", "_manage_wizardblock", "done", Absent, "none")
RaiseOutcome == Outcome(TRUE, TRUE, Absent, Absent, Absent, Absent, Absent, "none")
FailOutcome == Outcome(FALSE, TRUE, PyFalse, "echo", "_manage_wizardblock", None, "Invalid action", "none")
HandlerOutcomes ==
  { OkOutcome, RaiseOutcome, FailOutcome,
    \* status false without an "error" key
    Outcome(FALSE, TRUE, PyFalse, "echo", "_manage_wizardblock", None, Absent, "none"),
    \* status true with an "error" key
    Outcome(FALSE, TRUE, PyTrue, "echo", "_manage_wizardblock", "done", "ignored", "none"),
    \* a status that is not a bool: truthy, and falsy
    Outcome(FALSE, TRUE, "int:7", "echo", "_manage_wizardblock", "done", Absent, "none"),
    Outcome(FALSE, TRUE, None, "echo", "_manage_wizardblock", None, "Invalid action", "none"),
    \* a result without the "result" key, and a return value that is no dict
    Outcome(FALSE, TRUE, PyTrue, "echo", "_manage_wizardblock", Absent, Absent, "none"),
    Outcome(FALSE, FALSE, Absent, Absent, Absent, Absent, Absent, "none") }

\* One call of execute: the handler, execute_args (Absent for a keyword that is
\* not passed), the attributes value that was copied, the request it came from
\* and its id in the batch, what execute did, and the envelope made of it.
NoArgs == [obj |-> Absent, attributes |-> Absent, method |-> Absent]
NoCall == [handler |-> Absent, args |-> NoArgs, src |-> Absent,
           req |-> [isdict |-> FALSE, nd |-> None, operation |-> Absent, obj |-> Absent,
                    method |-> Absent, attributes |-> Absent],
           id |-> "", out |-> OkOutcome, env |-> NoEnvelope]

\* type(v).__name__, and the class repr that f"{type(v)}" prints
ClassRepr(v) == "<class '" \o TypeOf(v) \o "'>"

----------------------------------------------------------------------------
(* Manipulator._process_single_request *)

\* "obj or self._managing_object": a falsy object gives way to the managing object
ValidateObject_Truthiness(obj, obj_type) ==
  LET effective_obj == IF Truthy(obj) THEN obj ELSE managing_object
  IN IF effective_obj = None
     THEN [ok |-> FALSE, obj |-> None, msg |-> "No " \o obj_type \o " or managing object provided"]
     ELSE IF strict_type_check /\ TypeOf(effective_obj) \notin DOMAIN registry
     THEN [ok |-> FALSE, obj |-> None, msg |-> "Unsupported object type: " \o ClassRepr(effective_obj)]
     ELSE [ok |-> TRUE, obj |-> effective_obj, msg |-> ""]

\* the registry is looked up whether or not strict type-checking is on
ValidateObject_AlwaysStrict(obj, obj_type) ==
  LET effective_obj == IF obj # None THEN obj ELSE managing_object
  IN IF effective_obj = None
     THEN [ok |-> FALSE, obj |-> None, msg |-> "No " \o obj_type \o " or managing object provided"]
     ELSE IF TypeOf(effective_obj) \notin DOMAIN registry
     THEN [ok |-> FALSE, obj |-> None, msg |-> "Unsupported object type: " \o ClassRepr(effective_obj)]
     ELSE [ok |-> TRUE, obj |-> effective_obj, msg |-> ""]

\* Manipulator._validate_object; a ValueError is [ok |-> FALSE, msg |-> ...]
ValidateObject(obj, obj_type) ==
  LET effective_obj == IF obj # None THEN obj ELSE managing_object
  IN IF effective_obj = None
     THEN [ok |-> FALSE, obj |-> None, msg |-> "No " \o obj_type \o " or managing object provided"]
     ELSE IF strict_type_check /\ TypeOf(effective_obj) \notin DOMAIN registry
     THEN [ok |-> FALSE, obj |-> None, msg |-> "Unsupported object type: " \o ClassRepr(effective_obj)]
     ELSE [ok |-> TRUE, obj |-> effective_obj, msg |-> ""]

\* an except clause that reports a fixed text instead of str(e)
TryExecute_FixedMessage(super_instance, effective_obj, out) ==
  LET KeyError(k) == Failure(effective_obj, "'" \o k \o "'")
  IN IF super_instance \notin Handlers
     THEN Failure(effective_obj, "'" \o TypeOf(super_instance) \o "' object has no attribute 'execute'")
     ELSE IF out.raises THEN Failure(effective_obj, "Failed to process request")
     ELSE IF ~out.isdict THEN Failure(effective_obj, "'NoneType' object is not subscriptable")
     ELSE IF out.status = Absent THEN KeyError("status")
     ELSE IF out.object = Absent THEN KeyError("object")
     ELSE IF out.method = Absent THEN KeyError("method")
     ELSE IF out.result = Absent THEN KeyError("result")
     ELSE LET ob == IF out.object = "echo" THEN effective_obj ELSE out.object
          IN IF ~Truthy(out.status)
             THEN IF out.error = Absent THEN KeyError("error")
                  ELSE Envelope(out.status, ob, out.method, out.result, out.error)
             ELSE Envelope(out.status, ob, out.method, out.result, Absent)

\* the try block around super_instance.execute(**execute_args), lines 347-361
TryExecute(super_instance, effective_obj, out) ==
  LET KeyError(k) == Failure(effective_obj, "'" \o k \o "'")
  IN IF super_instance \notin Handlers
     THEN Failure(effective_obj, "'" \o TypeOf(super_instance) \o "' object has no attribute 'execute'")
     ELSE IF out.raises THEN Failure(effective_obj, out.msg)
     ELSE IF ~out.isdict THEN Failure(effective_obj, "'NoneType' object is not subscriptable")
     ELSE IF out.status = Absent THEN KeyError("status")
     ELSE IF out.object = Absent THEN KeyError("object")
     ELSE IF out.method = Absent THEN KeyError("method")
     ELSE IF out.result = Absent THEN KeyError("result")
     ELSE LET ob == IF out.object = "echo" THEN effective_obj ELSE out.object
          IN IF ~Truthy(out.status)
             THEN IF out.error = Absent THEN KeyError("error")
                  ELSE Envelope(out.status, ob, out.method, out.result, out.error)
             ELSE Envelope(out.status, ob, out.method, out.result, Absent)

Returned(env, call) == [raised |-> FALSE, exc |-> "", env |-> env, call |-> call]
Raised(exc) == [raised |-> TRUE, exc |-> exc, env |-> NoEnvelope, call |-> NoCall]

\* execute_args without the "if attributes or method" test
ExecuteArgs_Always(effective_obj, attributes, method, kaddr) ==
  [obj |-> effective_obj,
   attributes |-> kaddr,
   method |-> IF Truthy(method) THEN method ELSE Absent]

\* execute_args, lines 338-345: the copy of attributes is put at address kaddr
ExecuteArgs(effective_obj, attributes, method, kaddr) ==
  [obj |-> effective_obj,
   attributes |-> IF Truthy(attributes) \/ Truthy(method) THEN kaddr ELSE Absent,
   method |-> IF Truthy(method) THEN method ELSE Absent]

ProcessSingleRequest(req, out, kaddr) ==
  LET operation == PyGet(req.operation)
      obj == PyGet(req.obj)
      method == PyGet(req.method)
      attributes == IF req.attributes = Absent THEN FreshDict ELSE req.attributes
  IN IF ~Truthy(operation)
     THEN Returned(Failure(obj, "No operation specified in request"), NoCall)
     ELSE IF ~Hashable(operation)
     THEN Raised("unhashable type: '" \o TypeOf(operation) \o "'")
     ELSE LET super_instance == OpsGet(operations, operation)
              v == ValidateObject(obj, "request object")
          IN IF super_instance = None
             THEN Returned(Failure(obj, "Operation '" \o operation \o "' not registered"), NoCall)
             ELSE IF ~v.ok
             THEN Returned(Failure(obj, v.msg), NoCall)
             ELSE IF (Truthy(attributes) \/ Truthy(method)) /\ TypeOf(attributes) # "dict"
             THEN Returned(Failure(v.obj, "Invalid attributes type"), NoCall)
             ELSE LET execute_args == ExecuteArgs(v.obj, attributes, method, kaddr)
                      env == TryExecute(super_instance, v.obj, out)
                  IN Returned(env,
                       [handler |-> super_instance, args |-> execute_args,
                        src |-> IF execute_args.attributes # Absent THEN attributes ELSE Absent,
                        req |-> req, id |-> "", out |-> out, env |-> env])


----------------------------------------------------------------------------
(* Manipulator.process_request *)

\* a type test that lets every value through
IsStrOrNone_Any(v) == TRUE

\* isinstance(v, (str, type(None))), isinstance(v, (dict, type(None)))
IsStrOrNone(v) == TypeOf(v) \in {"str", "NoneType"}
IsDictOrNone(v) == TypeOf(v) \in {"dict", "NoneType"}

InvalidMethodMsg(v) == "Invalid 'method' type: expected str or None, got " \o TypeOf(v)
InvalidAttributesMsg(v) == "Invalid 'attributes' type: expected dict or None, got " \o TypeOf(v)

\* str([(k, type(v).__name__) for k, v in request.items() if not isinstance(v, dict)])
RECURSIVE InvalidList(_, _, _)
InvalidList(entries, i, first) ==
  IF i > Len(entries) THEN ""
  ELSE IF entries[i].sub.isdict THEN InvalidList(entries, i + 1, first)
  ELSE (IF first THEN "" ELSE ", ")
       \o "('" \o entries[i].id \o "', '" \o TypeOf(entries[i].sub.nd) \o "')"
       \o InvalidList(entries, i + 1, FALSE)

\* a loop body that passes every entry with an "operation" key on unvalidated
ProcessSubRequest_NoTypeCheck(sub_request, out, kaddr) ==
  IF sub_request.operation = Absent
  THEN Returned(Failure(PyGet(sub_request.obj), "Missing 'operation' in sub-request"), NoCall)
  ELSE ProcessSingleRequest(sub_request, out, kaddr)

\* the body of the loop over request.items(), lines 255-286
ProcessSubRequest(sub_request, out, kaddr) ==
  IF sub_request.operation = Absent
  THEN Returned(Failure(PyGet(sub_request.obj), "Missing 'operation' in sub-request"), NoCall)
  ELSE IF sub_request.method # Absent /\ ~IsStrOrNone(sub_request.method)
  THEN Returned(Failure(PyGet(sub_request.obj), InvalidMethodMsg(sub_request.method)), NoCall)
  ELSE IF sub_request.attributes # Absent /\ ~IsDictOrNone(sub_request.attributes)
  THEN Returned(Failure(PyGet(sub_request.obj), InvalidAttributesMsg(sub_request.attributes)), NoCall)
  ELSE ProcessSingleRequest(sub_request, out, kaddr)

\* the loop over request.items(), lines 253-288: the results so far, the calls
\* made so far, and the exception that ended the loop, if any
RECURSIVE ProcessSequence(_, _, _)
ProcessSequence(entries, outs, n) ==
  IF n = 0 THEN [raised |-> FALSE, exc |-> "", results |-> <<>>, calls |-> <<>>]
  ELSE LET before == ProcessSequence(entries, outs, n - 1)
           r == ProcessSubRequest(entries[n].sub, outs[n], CopyAddr(n))
       IN IF before.raised THEN before
          ELSE IF r.raised THEN [before EXCEPT !.raised = TRUE, !.exc = r.exc]
          ELSE [before EXCEPT
                  !.results = Append(@, [id |-> entries[n].id, env |-> r.env]),
                  !.calls = IF r.call = NoCall THEN @
                            ELSE Append(@, [r.call EXCEPT !.id = entries[n].id])]

RetEnvelope(env) == [kind |-> "envelope", env |-> env, results |-> <<>>, exc |-> ""]
\* a mapping that holds the results in reverse order
RetMapping_Reversed(results) ==
  [kind |-> "mapping", env |-> NoEnvelope,
   results |-> [i \in 1..Len(results) |-> results[Len(results) + 1 - i]], exc |-> ""]
RetMapping(results) == [kind |-> "mapping", env |-> NoEnvelope, results |-> results, exc |-> ""]
RetRaise(exc) == [kind |-> "raise", env |-> NoEnvelope, results |-> <<>>, exc |-> exc]

Result(r, cs) == [ret |-> r, calls |-> cs]

\* process_request(request), where outs[i] is what execute does when the
\* request (i = 1) or the i-th entry of the batch gets as far as calling it
ProcessRequestResult(req, outs) ==
  IF ~req.isdict
  THEN Result(RetRaise("Request must be a dictionary, got " \o TypeOf(req.nd)), <<>>)
  ELSE
  LET entries == Entries(req)
      is_potential_sequence == Len(entries) > 0 /\ req.operation = Absent
  IN IF is_potential_sequence
     THEN IF \E i \in 1..Len(entries) : ~entries[i].sub.isdict
          THEN Result(RetEnvelope(Failure(None,
                  "Invalid sub-request type in sequence: [" \o InvalidList(entries, 1, TRUE) \o "]")), <<>>)
          ELSE LET s == ProcessSequence(entries, outs, Len(entries))
               IN IF s.raised THEN Result(RetRaise(s.exc), s.calls)
                  ELSE Result(RetMapping(s.results), s.calls)
     ELSE IF req.operation = Absent
     THEN Result(RetEnvelope(Failure(PyGet(req.obj), "No operation specified in request")), <<>>)
     ELSE IF req.method # Absent /\ ~IsStrOrNone(req.method)
     THEN Result(RetEnvelope(Failure(PyGet(req.obj), InvalidMethodMsg(req.method))), <<>>)
     ELSE IF req.attributes # Absent /\ ~IsDictOrNone(req.attributes)
     THEN Result(RetEnvelope(Failure(PyGet(req.obj), InvalidAttributesMsg(req.attributes))), <<>>)
     ELSE LET r == ProcessSingleRequest(TopAsSub(req), outs[1], CopyAddr(1))
          IN IF r.raised THEN Result(RetRaise(r.exc), <<>>)
             ELSE Result(RetEnvelope(r.env), IF r.call = NoCall THEN <<>> ELSE <<r.call>>)

----------------------------------------------------------------------------
(* The heap: attributes.copy() and what the handler does to its copy *)

\* dict.copy() is shallow: the copy holds the values of the original
\* themselves; then the handler changes what it was given, as out.mutate says
CopyContent(call) == DictContent(call.src)
HandlerContent(call) ==
  IF call.out.mutate = "top" THEN [CopyContent(call) EXCEPT !["action"] = "changed"]
  ELSE CopyContent(call)
\* the list that the handler appends to through the mapping it received
MutatedList(call) ==
  IF call.out.mutate = "nested" /\ call.args.attributes # Absent
     /\ CopyContent(call)["items"] \in ListAddr
  THEN CopyContent(call)["items"] ELSE Absent

DictsAfter(cs) ==
  [d \in DictAddr |->
     IF \E i \in 1..Len(cs) : cs[i].args.attributes = d
     THEN HandlerContent(cs[CHOOSE i \in 1..Len(cs) : cs[i].args.attributes = d])
     ELSE dicts[d]]
\* how many of the calls append to list l
RECURSIVE Appends(_, _, _)
Appends(cs, l, n) ==
  IF n = 0 THEN 0
  ELSE Appends(cs, l, n - 1) + (IF MutatedList(cs[n]) = l THEN 1 ELSE 0)
RECURSIVE AppendTimes(_, _)
AppendTimes(list, n) ==
  IF n = 0 \/ Len(list) >= MaxListLen THEN list ELSE AppendTimes(Append(list, "y"), n - 1)
ListsAfter(cs) == [l \in ListAddr |-> AppendTimes(lists[l], Appends(cs, l, Len(cs)))]

\* a batch that undoes the changes of its calls when one of them fails
ObjectsAfter_Rollback(cs) ==
  IF \E i \in 1..Len(cs) : cs[i].env.status # PyTrue THEN objects
  ELSE [o \in Objects |->
          objects[o] + Cardinality({i \in 1..Len(cs) : cs[i].args.obj = o /\ cs[i].out.effect})]

\* the target objects after the calls: each call whose handler changes its
\* object counts once, and nothing undoes a change
ObjectsAfter(cs) ==
  [o \in Objects |->
     objects[o] + Cardinality({i \in 1..Len(cs) : cs[i].args.obj = o /\ cs[i].out.effect})]

----------------------------------------------------------------------------
(* Operations of the router and steps of its caller *)

\* a process_request that keeps the object of the request as managing object
ProcessRequest_AdoptsObject(req, outs) ==
  /\ pc = "idle"
  /\ \E res \in {ProcessRequestResult(req, outs)} :
        /\ request' = req
        /\ ret' = res.ret
        /\ calls' = res.calls
        /\ dicts' = DictsAfter(res.calls)
        /\ lists' = ListsAfter(res.calls)
        /\ \A o \in Objects : ObjectsAfter(res.calls)[o] <= MaxChanges
        /\ objects' = ObjectsAfter(res.calls)
        /\ handlerView' =
             [d \in CopyDicts |->
                [k \in AttrKeys |->
                   LET v == dicts'[d][k]
                   IN IF v \in ListAddr THEN <<"list">> \o lists'[v] ELSE <<v>>]]
  /\ pc' = "returned"
  /\ managing_object' = IF req.obj \in Objects THEN req.obj ELSE managing_object
  /\ UNCHANGED <<strict_type_check, base_classes, operations, registry, callerView>>

\* Manipulator.process_request: the caller passes req, and outs says what each
\* execute that is called does
ProcessRequest(req, outs) ==
  /\ pc = "idle"
  /\ \E res \in {ProcessRequestResult(req, outs)} :
        /\ request' = req
        /\ ret' = res.ret
        /\ calls' = res.calls
        /\ dicts' = DictsAfter(res.calls)
        /\ lists' = ListsAfter(res.calls)
        /\ \A o \in Objects : ObjectsAfter(res.calls)[o] <= MaxChanges
        /\ objects' = ObjectsAfter(res.calls)
        /\ handlerView' =
             [d \in CopyDicts |->
                [k \in AttrKeys |->
                   LET v == dicts'[d][k]
                   IN IF v \in ListAddr THEN <<"list">> \o lists'[v] ELSE <<v>>]]
  /\ pc' = "returned"
  /\ UNCHANGED <<routerVars, callerView>>

\* the caller takes the result; the payload copies are dropped with the call
Return ==
  /\ pc = "returned"
  /\ pc' = "idle"
  /\ request' = NoRequest
  /\ ret' = NoReturn
  /\ calls' = <<>>
  /\ dicts' = [d \in DictAddr |-> IF d \in CopyDicts THEN EmptyContent ELSE dicts[d]]
  /\ handlerView' = [d \in CopyDicts |-> [k \in AttrKeys |-> <<Absent>>]]
  /\ UNCHANGED <<routerVars, lists, callerView, objects>>

\* the caller changes a mapping it owns: rebinds a key, or appends to a
\* list nested in it
CallerMutate(d, kind) ==
  /\ d \in CallerDicts
  /\ \/ /\ kind = "top"
        /\ dicts[d]["action"] # "rebound"
        /\ dicts' = [dicts EXCEPT ![d]["action"] = "rebound"]
        /\ callerView' = [callerView EXCEPT ![d]["action"] = <<"rebound">>]
        /\ UNCHANGED lists
     \/ /\ kind = "nested"
        /\ dicts[d]["items"] \in ListAddr
        /\ Len(lists[dicts[d]["items"]]) < MaxListLen
        /\ lists' = [lists EXCEPT ![dicts[d]["items"]] = Append(@, "z")]
        /\ callerView' =
             [c \in CallerDicts |->
                [k \in AttrKeys |->
                   IF dicts[c][k] = dicts[d]["items"]
                   THEN Append(callerView[c][k], "z") ELSE callerView[c][k]]]
        /\ UNCHANGED dicts
  /\ UNCHANGED <<routerVars, handlerView, objects, callVars>>

\* Manipulator.update_registry
UpdateRegistry(additional_classes, clear_operations) ==
  /\ pc = "idle"
  /\ operations' = IF clear_operations THEN <<>> ELSE operations
  /\ base_classes' = base_classes \o
       SelectSeq(additional_classes, LAMBDA cls : cls \notin SeqToSet(base_classes))
  /\ registry' = GetMethodRegistry(operations', base_classes')
  /\ UNCHANGED <<managing_object, strict_type_check, heapVars, callVars>>

\* a set_managing_object that notes a new type but leaves the registry alone
SetManagingObject_NoRebuild(obj) ==
  /\ pc = "idle"
  /\ managing_object' = obj
  /\ IF obj # None /\ TypeOf(obj) \notin SeqToSet(base_classes)
     THEN /\ base_classes' = Append(base_classes, TypeOf(obj))
          /\ UNCHANGED registry
     ELSE UNCHANGED <<base_classes, registry>>
  /\ UNCHANGED <<strict_type_check, operations, heapVars, callVars>>

\* Manipulator.set_managing_object
SetManagingObject(obj) ==
  /\ pc = "idle"
  /\ managing_object' = obj
  /\ IF obj # None /\ TypeOf(obj) \notin SeqToSet(base_classes)
     THEN /\ base_classes' = Append(base_classes, TypeOf(obj))
          /\ registry' = GetMethodRegistry(operations, base_classes')
     ELSE UNCHANGED <<base_classes, registry>>
  /\ UNCHANGED <<strict_type_check, operations, heapVars, callVars>>

\* a registration that writes the binding before it validates its arguments
RegisterOperation_WriteFirst(operation, super_instance) ==
  /\ pc = "idle"
  /\ operations' = OpsSet(operations, operation, super_instance)
  /\ registry' =
       IF TypeOf(super_instance) \notin DOMAIN registry
       THEN [t \in DOMAIN registry \cup {TypeOf(super_instance)} |->
               IF t = TypeOf(super_instance) THEN HandlerMethods(super_instance)
               ELSE registry[t]]
       ELSE registry
  /\ UNCHANGED <<managing_object, strict_type_check, base_classes, heapVars, callVars>>

\* Manipulator.register_operation; an invalid name or a handler without
\* execute raises ValueError before anything is written
RegisterOperation(operation, super_instance) ==
  /\ pc = "idle"
  /\ IF TypeOf(operation) # "str" \/ ~Truthy(operation) \/ super_instance \notin Handlers
     THEN UNCHANGED <<operations, registry>>
     ELSE /\ operations' = OpsSet(operations, operation, super_instance)
          /\ registry' =
               IF TypeOf(super_instance) \notin DOMAIN registry
               THEN [t \in DOMAIN registry \cup {TypeOf(super_instance)} |->
                       IF t = TypeOf(super_instance) THEN HandlerMethods(super_instance)
                       ELSE registry[t]]
               ELSE registry
  /\ UNCHANGED <<managing_object, strict_type_check, base_classes, heapVars, callVars>>

\* the ValueError of register_operation, lines 139-144; "" when it raises none
RegisterRaises(operation, super_instance) ==
  IF TypeOf(operation) # "str" \/ ~Truthy(operation)
  THEN "Operation name must be a non-empty string"
  ELSE IF super_instance \notin Handlers
  THEN "Super-instance for '" \o operation \o "' must have 'execute' method"
  ELSE ""

\* a call of register_operation, as its caller sees it
RegisterCall(operation, super_instance) ==
  /\ RegisterOperation(operation, super_instance)
  /\ LET raised == RegisterRaises(operation, super_instance)
     IN /\ raised = "" => Len(log.regs) < MaxRegistrations
        /\ setup' = [NoSetup EXCEPT !.call = "register_operation",
                                    !.args = <<operation, super_instance>>,
                                    !.raised = raised]
        /\ log' = IF raised = ""
                  THEN [log EXCEPT !.regs = Append(@, [name |-> operation,
                                                       handler |-> super_instance])]
                  ELSE log

\* Manipulator.get_methods_for_type
GetMethodsForType(obj_type) ==
  /\ pc = "idle"
  /\ setup' = IF obj_type \notin DOMAIN registry
              THEN [NoSetup EXCEPT !.call = "get_methods_for_type", !.args = <<obj_type>>,
                                   !.raised = "No methods registered for type " \o obj_type]
              ELSE [NoSetup EXCEPT !.call = "get_methods_for_type", !.args = <<obj_type>>,
                                   !.methods = registry[obj_type]]
  /\ UNCHANGED <<routerVars, heapVars, callVars, log>>

\* Manipulator.get_supported_operations
GetSupportedOperations ==
  /\ pc = "idle"
  /\ setup' = [NoSetup EXCEPT !.call = "get_supported_operations",
                              !.names = [i \in 1..Len(operations) |-> operations[i].name]]
  /\ UNCHANGED <<routerVars, heapVars, callVars, log>>

\* calls of set_managing_object and update_registry, as their caller sees them
SetManagingObjectCall(obj) ==
  /\ SetManagingObject(obj)
  /\ setup' = [NoSetup EXCEPT !.call = "set_managing_object", !.args = <<obj>>]
  /\ UNCHANGED log

UpdateRegistryCall(additional_classes, clear_operations) ==
  /\ UpdateRegistry(additional_classes, clear_operations)
  /\ setup' = [NoSetup EXCEPT !.call = "update_registry",
                              !.args = <<additional_classes, clear_operations>>]
  /\ log' = IF clear_operations THEN [base |-> <<>>, regs |-> <<>>] ELSE log

----------------------------------------------------------------------------
(* The requests and outcomes that the specifications draw from *)

Registrations == {<<"manage", "H1">>, <<"generate", "H2">>}

OperationVals == {Absent, None, "manage", "generate", "noop", "L1"}
ObjVals == {Absent, None, "proj", "cont", "D1"}
MethodVals == {Absent, None, "", "m", "int:7"}
AttributesVals == {Absent, None, "D0", "D1", "int:7"}

SingleRequests ==
  {Request(op, ob, me, at, <<>>) :
     op \in OperationVals, ob \in ObjVals, me \in MethodVals, at \in AttributesVals}

BatchIds == <<"r1", "r2", "r3", "r4">>
BatchSubs ==
  { SubRequest("manage", "proj", Absent, "D1"),
    SubRequest("manage", Absent, "m", None),
    SubRequest("noop", "cont", Absent, Absent),
    SubRequest(Absent, "proj", Absent, Absent),
    SubRequest("L1", "proj", Absent, Absent),
    NonDict("int:7") }
BatchRequests ==
  {Request(Absent, Absent, Absent, Absent, [i \in 1..n |-> [id |-> BatchIds[i], sub |-> subs[i]]]) :
     n \in 1..MaxBatch, subs \in [1..MaxBatch -> BatchSubs]}
BatchOutcomes == {OkOutcome, RaiseOutcome, FailOutcome}

NonDictRequests == {NonDictRequest("L1"), NonDictRequest(None)}

\* outcomes are drawn only for the execute calls that are made
SubCallsExecute(sub) == ProcessSubRequest(sub, OkOutcome, CopyAddr(1)).call # NoCall
CallsExecute(req) == ProcessRequestResult(req, <<OkOutcome>>).calls # <<>>
OutcomeChoices(req, outcomes) ==
  IF req.batch = <<>>
  THEN IF CallsExecute(req) THEN {<<out>> : out \in outcomes} ELSE {<<OkOutcome>>}
  ELSE {outs \in [1..Len(req.batch) -> outcomes] :
          \A i \in 1..Len(req.batch) :
             outs[i] # OkOutcome => SubCallsExecute(req.batch[i].sub)}

Next ==
  \/ /\ pc = "idle"
     /\ \E req \in SingleRequests \cup NonDictRequests :
          \E outs \in OutcomeChoices(req, HandlerOutcomes) : ProcessRequest(req, outs)
     /\ UNCHANGED <<plan, setup, log, appVars>>
  \/ /\ pc = "idle"
     /\ \E req \in BatchRequests :
          \E outs \in OutcomeChoices(req, BatchOutcomes) : ProcessRequest(req, outs)
     /\ UNCHANGED <<plan, setup, log, appVars>>
  \/ Return /\ UNCHANGED <<plan, setup, log, appVars>>
  \/ (\E obj \in Objects \cup {None} : SetManagingObject(obj)) /\ UNCHANGED <<setup, log, appVars>>
  \/ (\E reg \in Registrations : RegisterOperation(reg[1], reg[2])) /\ UNCHANGED <<setup, log, appVars>>
  \/ (\E clear_operations \in BOOLEAN : UpdateRegistry(<<>>, clear_operations))
       /\ UNCHANGED <<setup, log, appVars>>

Spec == Init /\ [][Next]_vars

TypeOK ==
  /\ pc \in {"idle", "returned"}
  /\ ret.kind \in {"none", "envelope", "mapping", "raise"}
  /\ strict_type_check \in BOOLEAN

\* Isolation of the attribute mappings: one registered operation, requests that
\* carry the caller's mappings, handlers that change what they receive, and a
\* caller that changes its mappings
IsoRequests ==
  {Request("manage", Absent, me, at, <<>>) :
     me \in {Absent, "m"}, at \in {Absent, "D0", "D1", "D2"}}
IsoOutcomes ==
  {[OkOutcome EXCEPT !.mutate = mu] : mu \in {"none", "top", "nested"}}

InitIso ==
  /\ ManipulatorInit("proj", <<>>, <<[name |-> "manage", handler |-> "H1"]>>, FALSE)
  /\ HeapInit
  /\ CallInit
  /\ AppInit
  /\ SetupInit(<<>>)

NextIso ==
  \/ /\ pc = "idle"
     /\ \E req \in IsoRequests :
          \E outs \in OutcomeChoices(req, IsoOutcomes) : ProcessRequest(req, outs)
     /\ UNCHANGED <<plan, setup, log, appVars>>
  \/ Return /\ UNCHANGED <<plan, setup, log, appVars>>
  \/ (\E d \in CallerDicts, kind \in {"top", "nested"} : CallerMutate(d, kind))
       /\ UNCHANGED <<setup, log, appVars>>

SpecIso == InitIso /\ [][NextIso]_vars

\* Batches against their entries issued one by one: one registered operation,
\* handlers that change the object they are given, and a caller that either
\* issues a batch, or notes what the batch would give and issues its entries
\* as single requests in the batch's order.
SeqSubs ==
  { SubRequest("manage", "proj", Absent, "D1"),
    SubRequest("manage", Absent, Absent, Absent),
    SubRequest("manage", "cont", "m", None),
    SubRequest("noop", "cont", Absent, Absent),
    SubRequest("manage", "proj", "int:7", Absent),
    SubRequest("L1", "proj", Absent, Absent),
    SubRequest(Absent, "proj", Absent, Absent) }
SeqBatches ==
  {Request(Absent, Absent, Absent, Absent, [i \in 1..n |-> [id |-> BatchIds[i], sub |-> subs[i]]]) :
     n \in 1..MaxBatch, subs \in [1..MaxBatch -> SeqSubs]}
SeqOutcomes == {OkOutcome, [OkOutcome EXCEPT !.effect = TRUE], RaiseOutcome, FailOutcome}

\* the entry of a batch as a request of its own
AsRequest(sub) == Request(sub.operation, sub.obj, sub.method, sub.attributes, <<>>)

StartPlan(req, outs) ==
  /\ pc = "idle" /\ ~plan.active
  /\ \E res \in {ProcessRequestResult(req, outs)} :
        /\ \A o \in Objects : ObjectsAfter(res.calls)[o] <= MaxChanges
        /\ plan' = [active |-> TRUE, batch |-> req, outs |-> outs, i |-> 1,
                    expect |-> res.ret, after |-> ObjectsAfter(res.calls),
                    router |-> routerVars, got |-> <<>>]
  /\ UNCHANGED <<routerVars, heapVars, pc, request, ret, calls>>

IssueNext ==
  /\ plan.active /\ plan.i <= Len(plan.batch.batch)
  /\ ProcessRequest(AsRequest(plan.batch.batch[plan.i].sub), <<plan.outs[plan.i]>>)
  /\ UNCHANGED plan

Collect ==
  /\ plan.active
  /\ Return
  /\ plan' = [plan EXCEPT !.got = Append(@, ret), !.i = @ + 1]

EndPlan ==
  /\ plan.active /\ plan.i > Len(plan.batch.batch) /\ pc = "idle"
  /\ plan' = NoPlan
  /\ UNCHANGED <<routerVars, heapVars, pc, request, ret, calls>>

InitBatch ==
  /\ \E mo \in {None, "proj"}, strict \in BOOLEAN :
       ManipulatorInit(mo, <<>>, <<[name |-> "manage", handler |-> "H1"]>>, strict)
  /\ HeapInit
  /\ CallInit
  /\ AppInit
  /\ SetupInit(<<>>)

NextBatch ==
  \/ /\ pc = "idle" /\ ~plan.active
     /\ \E req \in SeqBatches :
          \E outs \in OutcomeChoices(req, SeqOutcomes) : ProcessRequest(req, outs)
     /\ UNCHANGED <<plan, setup, log, appVars>>
  \/ ~plan.active /\ Return /\ UNCHANGED <<plan, setup, log, appVars>>
  \/ /\ pc = "idle" /\ ~plan.active
     /\ \E req \in SeqBatches :
          \E outs \in OutcomeChoices(req, SeqOutcomes) : StartPlan(req, outs)
     /\ UNCHANGED <<setup, log, appVars>>
  \/ IssueNext /\ UNCHANGED <<setup, log, appVars>>
  \/ Collect /\ UNCHANGED <<setup, log, appVars>>
  \/ EndPlan /\ UNCHANGED <<setup, log, appVars>>

SpecBatch == InitBatch /\ [][NextBatch]_vars

\* Registration and queries: a router constructed with any operations mapping,
\* callers that register under valid and invalid names handlers with and without
\* execute, rebuild the registry, query it, and send requests.
SetupInitOperations ==
  { <<>>,
    <<[name |-> "manage", handler |-> "H1"]>>,
    <<[name |-> "", handler |-> "H1"]>>,
    <<[name |-> "manage", handler |-> "int:7"]>> }
\* every valid registration, and one of each kind of invalid one
SetupRegistrations ==
  ({"manage", "generate"} \X {"H1", "H2", "H3"})
    \cup {<<"", "H1">>, <<"int:7", "H1">>, <<"manage", "int:7">>}
SetupTypes == {"BlockManager", "CodeGenerator", "WizardProject", "int"}
SetupRequests ==
  {Request(op, ob, Absent, Absent, <<>>) : op \in {"manage", "generate"}, ob \in {"proj", Absent}}
SetupOutcomes == {OkOutcome}

InitSetup ==
  /\ \E ops \in SetupInitOperations :
       /\ ManipulatorInit(None, <<>>, ops, FALSE)
       /\ SetupInit(ops)
  /\ HeapInit
  /\ CallInit
  /\ AppInit

NextSetup ==
  \/ /\ pc = "idle"
     /\ \E req \in SetupRequests :
          \E outs \in OutcomeChoices(req, SetupOutcomes) : ProcessRequest(req, outs)
     /\ UNCHANGED <<plan, setup, log, appVars>>
  \/ Return /\ UNCHANGED <<plan, setup, log, appVars>>
  \/ (\E reg \in SetupRegistrations : RegisterCall(reg[1], reg[2])) /\ UNCHANGED appVars
  \/ (\E obj_type \in SetupTypes : GetMethodsForType(obj_type)) /\ UNCHANGED appVars
  \/ GetSupportedOperations /\ UNCHANGED appVars
  \/ (\E obj \in {"proj", None} : SetManagingObjectCall(obj)) /\ UNCHANGED appVars
  \/ (\E clear_operations \in BOOLEAN : UpdateRegistryCall(<<>>, clear_operations)) /\ UNCHANGED appVars

SpecSetup == InitSetup /\ [][NextSetup]_vars

----------------------------------------------------------------------------
(* UIManager (src/wizard/super/wizard_ui_manager.py) *)

NameOrder == <<"Block1", "Block2", "Block3">>

\* Super._build_response(obj, status, method, result, error)
BuildResponse(status, method, result, error) ==
  [status |-> status, method |-> method, result |-> result, error |-> error]

\* a QGraphicsRectItem or QGraphicsLineItem that was just constructed: one
\* that is not in the scene
FreshItem(u) == CHOOSE i \in 1..(Cardinality(u.scene) + 1) : i \notin u.scene
FreshLine(u) == 0 - (CHOOSE i \in 1..(Cardinality(u.scene) + 1) : (0 - i) \notin u.scene)

\* UIManager._render_connection
RenderConnection(u, source, target) ==
  IF u.block_items[source] = NoItem \/ u.block_items[target] = NoItem
  THEN u
  ELSE LET line == FreshLine(u)
       IN [u EXCEPT !.scene = @ \cup {line}, !.lines[<<source, target>>] = line]

\* for target in project.connections[source]: if target in self._block_items:
\*     self._render_connection(source, target)
RECURSIVE RenderTargets(_, _, _, _)
RenderTargets(u, source, targets, i) ==
  IF i > Len(targets) THEN u
  ELSE RenderTargets(IF u.block_items[targets[i]] # NoItem
                     THEN RenderConnection(u, source, targets[i]) ELSE u,
                     source, targets, i + 1)

\* whether self._get_managing_object() is a WizardProject
ManagesProject == TypeOf(managing_object) = "WizardProject"

\* UIManager._add_wizardblock; item is the block item it made
AddWizardBlock(u, p, name) ==
  LET u1 == IF u.block_items[name] # NoItem
            THEN [u EXCEPT !.scene = @ \ {u.block_items[name]},
                           !.block_items[name] = NoItem]
            ELSE u
      item == FreshItem(u1)
      u2 == [u1 EXCEPT !.scene = @ \cup {item}, !.block_items[name] = item]
      u3 == IF ManagesProject /\ name \in p.ckeys
            THEN RenderTargets(u2, name, p.conns[name], 1) ELSE u2
  IN [ui |-> u3, resp |-> BuildResponse(TRUE, "_add_wizardblock", "item", "")]

\* UIManager._remove_wizardblock
RemoveWizardBlock(u, name) ==
  IF u.block_items[name] = NoItem
  THEN [ui |-> u, resp |-> BuildResponse(FALSE, "_remove_wizardblock", "None",
                                        "Block '" \o name \o "' not rendered")]
  ELSE LET connections_to_remove ==
             {key \in BlockPairs : u.lines[key] # NoItem /\ (key[1] = name \/ key[2] = name)}
       IN [ui |-> [u EXCEPT
                     !.scene = (@ \ {u.block_items[name]})
                                 \ {u.lines[key] : key \in connections_to_remove},
                     !.block_items[name] = NoItem,
                     !.lines = [key \in BlockPairs |->
                                  IF key \in connections_to_remove THEN NoItem ELSE @[key]]],
           resp |-> BuildResponse(TRUE, "_remove_wizardblock", "None", "")]

\* UIManager._refresh_wizardblock
RefreshWizardBlock(u, p, name) ==
  LET remove_response == RemoveWizardBlock(u, name)
  IN IF ~remove_response.resp.status THEN remove_response
     ELSE AddWizardBlock(remove_response.ui, p, name)

\* UIManager._render_wizardblock
RenderWizardBlock(u, p, name, action) ==
  CASE action = "add" -> AddWizardBlock(u, p, name)
    [] action = "remove" -> RemoveWizardBlock(u, name)
    [] action = "refresh" -> RefreshWizardBlock(u, p, name)
    [] OTHER -> [ui |-> u, resp |-> BuildResponse(FALSE, "_render_wizardblock", "None",
                                                  "Unsupported action: " \o action)]

\* the first loop of _render_wizardproject: an item for every block
RECURSIVE RenderBlocks(_, _, _)
RenderBlocks(u, blocks, i) ==
  IF i > Len(NameOrder) THEN u
  ELSE RenderBlocks(IF NameOrder[i] \in blocks
                    THEN LET block_item == FreshItem(u)
                         IN [u EXCEPT !.scene = @ \cup {block_item},
                                      !.block_items[NameOrder[i]] = block_item]
                    ELSE u,
                    blocks, i + 1)

\* its second loop: a line for every connection between rendered blocks
RECURSIVE RenderConnections(_, _, _)
RenderConnections(u, p, i) ==
  IF i > Len(NameOrder) THEN u
  ELSE RenderConnections(IF NameOrder[i] \in p.ckeys /\ u.block_items[NameOrder[i]] # NoItem
                         THEN RenderTargets(u, NameOrder[i], p.conns[NameOrder[i]], 1)
                         ELSE u,
                         p, i + 1)

\* UIManager._render_wizardproject
RenderWizardProject(u, p) ==
  [ui |-> RenderConnections(RenderBlocks(NewUI({}), p.blocks, 1), p, 1),
   resp |-> BuildResponse(TRUE, "_render_wizardproject", "None", "")]

\* the loops of _update_position over the lines of a block: a tracked line is
\* taken from the scene and rendered again
RECURSIVE ReRenderLines(_, _, _)
ReRenderLines(u, keys, i) ==
  IF i > Len(keys) THEN u
  ELSE ReRenderLines(IF u.lines[keys[i]] # NoItem
                     THEN RenderConnection([u EXCEPT !.scene = @ \ {u.lines[keys[i]]},
                                                     !.lines[keys[i]] = NoItem],
                                           keys[i][1], keys[i][2])
                     ELSE u,
                     keys, i + 1)

LinesFrom(p, name) ==
  IF name \in p.ckeys THEN [i \in 1..Len(p.conns[name]) |-> <<name, p.conns[name][i]>>]
  ELSE <<>>
IsSourceOf(p, name, source) == source \in p.ckeys /\ name \in SeqToSet(p.conns[source])
LinesTo(p, name) ==
  LET sources == SelectSeq(NameOrder, LAMBDA source : IsSourceOf(p, name, source))
  IN [i \in 1..Len(sources) |-> <<sources[i], name>>]

\* an "attributes" argument of _update_position: None, or a dict whose
\* "position" is missing (kind "absent") or has the value val of type kind
PositionArgs ==
  {[kind |-> "absent", val |-> <<>>], [kind |-> "NoneType", val |-> <<>>],
   [kind |-> "tuple", val |-> <<10, 20>>], [kind |-> "list", val |-> <<10, 20>>],
   [kind |-> "tuple", val |-> <<0, 0>>], [kind |-> "tuple", val |-> <<1, 2, 3>>],
   [kind |-> "int", val |-> <<>>]}

\* UIManager._update_position.  Line 201 reads
\*   attributes is None or not attributes.get("position") is None
\* and "not x is None" is "x is not None"
UpdatePosition(u, p, name, attrs, position) ==
  IF attrs = "None" \/ position.kind \notin {"absent", "NoneType"}
  THEN [ui |-> u, project |-> p,
        resp |-> BuildResponse(FALSE, "_update_position", "None", "Position not provided")]
  ELSE IF position.kind = "absent"
  THEN [ui |-> u, project |-> p,
        resp |-> BuildResponse(FALSE, "_update_position", "None", "'position'")]
  ELSE IF position.kind \notin {"tuple", "list"} \/ Len(position.val) # 2
  THEN [ui |-> u, project |-> p,
        resp |-> BuildResponse(FALSE, "_update_position", "None",
                               "Position must be a tuple of (x, y)")]
  ELSE [ui |-> IF u.block_items[name] # NoItem /\ ManagesProject
               THEN ReRenderLines(ReRenderLines(u, LinesFrom(p, name), 1), LinesTo(p, name), 1)
               ELSE u,
        project |-> [p EXCEPT !.pos[name] = position.val],
        resp |-> BuildResponse(TRUE, "_update_position", "position", "")]

\* what the caller of a UIManager method sees
UIResp(call, name, action, r) ==
  [NoResp EXCEPT !.call = call, !.name = name, !.action = action,
                 !.status = r.status, !.method = r.method,
                 !.error = r.error, !.result = r.result]

\* a call of UIManager._render_wizardproject on the project
UIRenderProject ==
  /\ \E r \in {RenderWizardProject(ui, project)} :
        /\ Fits(r.ui.scene)
        /\ ui' = r.ui
        /\ resp' = UIResp("_render_wizardproject", "", "", r.resp)
  /\ UNCHANGED <<routerVars, heapVars, callVars, setup, log, project, window>>

\* a call of UIManager._render_wizardblock on the block named name
UIRenderBlock(name, action) ==
  /\ \E r \in {RenderWizardBlock(ui, project, name, action)} :
        /\ Fits(r.ui.scene)
        /\ ui' = r.ui
        /\ resp' = UIResp("_render_wizardblock", name, action, r.resp)
  /\ UNCHANGED <<routerVars, heapVars, callVars, setup, log, project, window>>

\* a call of UIManager._update_position on the block named name
UIUpdatePosition(name, attrs, position) ==
  /\ \E r \in {UpdatePosition(ui, project, name, attrs, position)} :
        /\ Fits(r.ui.scene)
        /\ ui' = r.ui
        /\ project' = r.project
        /\ resp' = [UIResp("_update_position", name, "", r.resp)
                      EXCEPT !.attrs = attrs, !.position = position]
  /\ UNCHANGED <<routerVars, heapVars, callVars, setup, log, window>>

\* The canvas: a project with blocks and connections, whose blocks are
\* rendered, removed, refreshed and moved in any order
UIProjects ==
  {[NewProject EXCEPT !.blocks = BlockNames, !.ckeys = DOMAIN cs,
                      !.conns = [n \in BlockNames |-> IF n \in DOMAIN cs THEN cs[n] ELSE <<>>],
                      !.bconn = [n \in BlockNames |-> IF n \in DOMAIN cs THEN cs[n] ELSE <<>>]] :
     cs \in {[x \in {} |-> <<>>],
             [x \in {"Block1"} |-> <<"Block2">>],
             [x \in {"Block1", "Block2"} |-> IF x = "Block1" THEN <<"Block2", "Block3">>
                                             ELSE <<"Block1">>]}}

InitUI ==
  /\ \E mo \in {None, "proj"} :
       ManipulatorInit(mo, <<>>, <<[name |-> "render", handler |-> "H4"]>>, FALSE)
  /\ HeapInit
  /\ CallInit
  /\ SetupInit(<<>>)
  /\ project \in UIProjects
  /\ ui = NewUI({})
  /\ window = NewWindow
  /\ resp = NoResp

NextUI ==
  \/ UIRenderProject
  \/ \E name \in BlockNames, action \in {"add", "remove", "refresh", "hide"} :
       UIRenderBlock(name, action)
  \/ \E name \in BlockNames, attrs \in {"None", "dict"}, position \in PositionArgs :
       UIUpdatePosition(name, attrs, position)

SpecUI == InitUI /\ [][NextUI]_vars

----------------------------------------------------------------------------
(* BlockManager (src/wizard/super/wizard_manager.py) *)

\* list.remove(x): the list without the first x
RECURSIVE ListRemove(_, _)
ListRemove(l, x) ==
  IF l = <<>> THEN <<>>
  ELSE IF Head(l) = x THEN Tail(l)
  ELSE <<Head(l)>> \o ListRemove(Tail(l), x)

\* project.blocks.has_item(name), name in project.blocks
HasItem(p, name) == name \in p.blocks

\* project.blocks.add(obj) and set_item(obj.name, obj) for a block that is
\* stored: the block named name is obj, with obj's list of connections
StoreBlock(p, name, connections) ==
  [p EXCEPT !.blocks = @ \cup {name}, !.bconn[name] = connections, !.pos[name] = <<0, 0>>]

\* project.blocks.remove(name)
DropBlock(p, name) ==
  [p EXCEPT !.blocks = @ \ {name}, !.bconn[name] = <<>>, !.pos[name] = <<0, 0>>]

\* BlockManager._manage_wizardblock(obj, {"action": action}) for a block obj
\* with the name and the connections given; add_existing is what the
\* container's add does with a name it already holds: "raise" or "replace"
ManageWizardBlock(p, name, connections, action, add_existing) ==
  IF ~ManagesProject
  THEN [project |-> p,
        resp |-> BuildResponse(FALSE, "_manage_wizardblock", "None", "Invalid managing object")]
  ELSE IF action = "create"
  THEN IF HasItem(p, name) /\ add_existing = "raise"
       THEN [project |-> p,
             resp |-> BuildResponse(FALSE, "_manage_wizardblock", "None", "str(e)")]
       ELSE [project |-> StoreBlock(p, name, connections),
             resp |-> BuildResponse(TRUE, "_manage_wizardblock", "to_dict", "")]
  ELSE IF action = "update"
  THEN IF ~HasItem(p, name)
       THEN [project |-> p,
             resp |-> BuildResponse(FALSE, "_manage_wizardblock", "None",
                                    "Block '" \o name \o "' not found")]
       ELSE [project |-> StoreBlock(p, name, connections),
             resp |-> BuildResponse(TRUE, "_manage_wizardblock", "to_dict", "")]
  ELSE IF action = "delete"
  THEN IF ~HasItem(p, name)
       THEN [project |-> p,
             resp |-> BuildResponse(FALSE, "_manage_wizardblock", "None",
                                    "Block '" \o name \o "' not found")]
       ELSE [project |-> DropBlock(p, name),
             resp |-> BuildResponse(TRUE, "_manage_wizardblock", "None", "")]
  ELSE [project |-> p,
        resp |-> BuildResponse(FALSE, "_manage_wizardblock", "None", "Invalid action: " \o action)]

\* a connect that forgets the list of the source block
ManageConnections_ForgetsBlock(p, action, source, target) ==
  IF ~Truthy(source) \/ ~Truthy(target)
  THEN [project |-> p,
        resp |-> BuildResponse(FALSE, "_manage_connections", "None", "Missing source or target")]
  ELSE IF action = "connect"
  THEN IF ~HasItem(p, source)
       THEN [project |-> p,
             resp |-> BuildResponse(FALSE, "_manage_connections", "None",
                                    "Source block '" \o source \o "' not found")]
       ELSE IF ~HasItem(p, target)
       THEN [project |-> p,
             resp |-> BuildResponse(FALSE, "_manage_connections", "None",
                                    "Target block '" \o target \o "' not found")]
       ELSE LET p1 == IF source \notin p.ckeys
                      THEN [p EXCEPT !.ckeys = @ \cup {source}, !.conns[source] = <<>>]
                      ELSE p
                p2 == IF target \notin SeqToSet(p1.conns[source])
                      THEN [p1 EXCEPT !.conns[source] = Append(@, target)]
                      ELSE p1
            IN [project |-> p2,
                resp |-> BuildResponse(TRUE, "_manage_connections", "connections", "")]
  ELSE IF action = "disconnect"
  THEN IF source \notin p.ckeys \/ target \notin SeqToSet(p.conns[source])
       THEN [project |-> p,
             resp |-> BuildResponse(FALSE, "_manage_connections", "None",
                        "No connection between '" \o source \o "' and '" \o target \o "'")]
       ELSE LET p1 == [p EXCEPT !.conns[source] = ListRemove(@, target)]
            IN IF ~HasItem(p1, source)
               THEN [project |-> p1,
                     resp |-> BuildResponse(FALSE, "_manage_connections", "None", "str(e)")]
               ELSE IF target \notin SeqToSet(p1.bconn[source])
               THEN [project |-> p1,
                     resp |-> BuildResponse(FALSE, "_manage_connections", "None",
                                            "list.remove(x): x not in list")]
               ELSE [project |-> [p1 EXCEPT !.bconn[source] = ListRemove(@, target)],
                     resp |-> BuildResponse(TRUE, "_manage_connections", "connections", "")]
  ELSE [project |-> p,
        resp |-> BuildResponse(FALSE, "_manage_connections", "None", "Invalid action: " \o action)]

\* BlockManager._manage_connections(project, {"action": action, "source":
\* source, "target": target}); a source or target that is None or "" is falsy
ManageConnections(p, action, source, target) ==
  IF ~Truthy(source) \/ ~Truthy(target)
  THEN [project |-> p,
        resp |-> BuildResponse(FALSE, "_manage_connections", "None", "Missing source or target")]
  ELSE IF action = "connect"
  THEN IF ~HasItem(p, source)
       THEN [project |-> p,
             resp |-> BuildResponse(FALSE, "_manage_connections", "None",
                                    "Source block '" \o source \o "' not found")]
       ELSE IF ~HasItem(p, target)
       THEN [project |-> p,
             resp |-> BuildResponse(FALSE, "_manage_connections", "None",
                                    "Target block '" \o target \o "' not found")]
       ELSE LET p1 == IF source \notin p.ckeys
                      THEN [p EXCEPT !.ckeys = @ \cup {source}, !.conns[source] = <<>>]
                      ELSE p
                p2 == IF target \notin SeqToSet(p1.conns[source])
                      THEN [p1 EXCEPT !.conns[source] = Append(@, target),
                                      !.bconn[source] = Append(@, target)]
                      ELSE p1
            IN [project |-> p2,
                resp |-> BuildResponse(TRUE, "_manage_connections", "connections", "")]
  ELSE IF action = "disconnect"
  THEN IF source \notin p.ckeys \/ target \notin SeqToSet(p.conns[source])
       THEN [project |-> p,
             resp |-> BuildResponse(FALSE, "_manage_connections", "None",
                        "No connection between '" \o source \o "' and '" \o target \o "'")]
       ELSE LET p1 == [p EXCEPT !.conns[source] = ListRemove(@, target)]
            IN IF ~HasItem(p1, source)
               THEN [project |-> p1,
                     resp |-> BuildResponse(FALSE, "_manage_connections", "None", "str(e)")]
               ELSE IF target \notin SeqToSet(p1.bconn[source])
               THEN [project |-> p1,
                     resp |-> BuildResponse(FALSE, "_manage_connections", "None",
                                            "list.remove(x): x not in list")]
               ELSE [project |-> [p1 EXCEPT !.bconn[source] = ListRemove(@, target)],
                     resp |-> BuildResponse(TRUE, "_manage_connections", "connections", "")]
  ELSE [project |-> p,
        resp |-> BuildResponse(FALSE, "_manage_connections", "None", "Invalid action: " \o action)]

\* a call of BlockManager._manage_wizardblock
ManageBlockCall(name, connections, action, add_existing) ==
  /\ \E r \in {ManageWizardBlock(project, name, connections, action, add_existing)} :
        /\ project' = r.project
        /\ resp' = [UIResp("_manage_wizardblock", name, action, r.resp)
                      EXCEPT !.attrs = add_existing]
  /\ UNCHANGED <<routerVars, heapVars, callVars, setup, log, ui, window>>

\* a call of BlockManager._manage_connections
ManageConnectionsCall(action, source, target) ==
  /\ \E r \in {ManageConnections(project, action, source, target)} :
        /\ project' = r.project
        /\ resp' = [UIResp("_manage_connections", "", action, r.resp)
                      EXCEPT !.source = source, !.target = target]
  /\ UNCHANGED <<routerVars, heapVars, callVars, setup, log, ui, window>>

\* The blocks of a project and their connections: blocks are created,
\* replaced and deleted, and connected and disconnected, in any order
EditNames == {"Block1", "Block2"}
EditConnections == {<<>>, <<"Block2">>}

InitBlocks ==
  /\ \E mo \in {None, "proj"} :
       ManipulatorInit(mo, <<>>, <<[name |-> "manage", handler |-> "H1"]>>, FALSE)
  /\ HeapInit
  /\ CallInit
  /\ SetupInit(<<>>)
  /\ AppInit

NextBlocks ==
  \/ \E name \in EditNames, connections \in EditConnections,
        action \in {"create", "update", "delete", "None"}, add_existing \in {"raise", "replace"} :
       /\ action # "create" => add_existing = "raise"
       /\ action \in {"delete", "None"} => connections = <<>>
       /\ ManageBlockCall(name, connections, action, add_existing)
  \/ \E action \in {"connect", "disconnect", "None"},
        source \in EditNames \cup {None, ""}, target \in EditNames \cup {None} :
       ManageConnectionsCall(action, source, target)

SpecBlocks == InitBlocks /\ [][NextBlocks]_vars

----------------------------------------------------------------------------
(* MSBWizardMainWindow (src/msbwizard.py) *)

\* MSBWizardMainWindow.clear_connections: the stored connections of the menu
\* actions are disconnected, and every connection of project_updated
ClearConnections(w) ==
  [w EXCEPT !.triggered = [a \in MenuActions |-> IF a \in w.stored THEN @[a] - 1 ELSE @[a]],
            !.stored = {},
            !.project_updated = 0]

\* MSBWizardMainWindow.setup_connections
SetupConnections(w) ==
  LET c == ClearConnections(w)
  IN [c EXCEPT !.triggered = [a \in MenuActions |-> @[a] + 1],
               !.stored = MenuActions,
               !.clicked = @ + 1,
               !.tabCloseRequested = @ + 1,
               !.project_updated = @ + 1]

\* WizardManipulator(managing_object=self.project, scene=self.scene): the
\* base classes it declares and the three operations it registers
WizardBaseClasses == <<"WizardBlock", "WizardContainer", "WizardProject", "TemplateContainer">>
WizardOperations ==
  <<[name |-> "manage", handler |-> "H1"], [name |-> "generate", handler |-> "H2"],
    [name |-> "render", handler |-> "H4"]>>
NewWizardManipulator ==
  /\ managing_object' = "proj"
  /\ strict_type_check' = FALSE
  /\ base_classes' = WizardBaseClasses
  /\ operations' = WizardOperations
  /\ registry' = GetMethodRegistry(WizardOperations, WizardBaseClasses)

\* what a slot of the window did
SlotResp(call, name, status, error) ==
  [NoResp EXCEPT !.call = call, !.name = name, !.status = status, !.error = error]

\* the name that add_block gives the new block: f"Block{len(blocks) + 1}"
NextBlockName(p) == NameOrder[Cardinality(p.blocks) + 1]

\* MSBWizardMainWindow.add_block: the "manage" request that creates the
\* block and, when that succeeded, the "render" request that adds its item
AddBlock(add_existing) ==
  /\ Cardinality(project.blocks) < Len(NameOrder)
  /\ \E name \in {NextBlockName(project)} :
       \E response \in {ManageWizardBlock(project, name, <<>>, "create", add_existing)} :
         /\ project' = response.project
         /\ IF response.resp.status
            THEN \E render_response \in {RenderWizardBlock(ui, response.project, name, "add")} :
                   /\ Fits(render_response.ui.scene)
                   /\ ui' = render_response.ui
            ELSE ui' = ui
         /\ resp' = [SlotResp("add_block", name, response.resp.status, response.resp.error)
                       EXCEPT !.attrs = add_existing]
  /\ UNCHANGED <<routerVars, heapVars, callVars, setup, log, window>>

\* MSBWizardMainWindow.remove_block(block_name)
RemoveBlock(block_name) ==
  /\ IF HasItem(project, block_name)
     THEN \E response \in {ManageWizardBlock(project, block_name, project.bconn[block_name],
                                             "delete", "raise")} :
            /\ project' = response.project
            /\ IF response.resp.status
               THEN ui' = RenderWizardBlock(ui, response.project, block_name, "remove").ui
               ELSE ui' = ui
            /\ resp' = SlotResp("remove_block", block_name, response.resp.status,
                                response.resp.error)
     ELSE /\ resp' = SlotResp("remove_block", block_name, FALSE,
                              "Block '" \o block_name \o "' not found")
          /\ UNCHANGED <<project, ui>>
  /\ UNCHANGED <<routerVars, heapVars, callVars, setup, log, window>>

\* MSBWizardMainWindow.new_project: a new project and a new manipulator, whose
\* UIManager is given the scene of the window
NewProjectSlot ==
  /\ window.clicked < MaxConnections
  /\ window' = SetupConnections(ClearConnections(window))
  /\ project' = NewProject
  /\ NewWizardManipulator
  /\ ui' = NewUI(ui.scene)
  /\ resp' = SlotResp("new_project", "", TRUE, "")
  /\ UNCHANGED <<heapVars, callVars, setup, log>>

\* MSBWizardMainWindow.open_project, for a file that holds the project p
OpenProject(p) ==
  /\ project' = p
  /\ NewWizardManipulator
  /\ ui' = NewUI(ui.scene)
  /\ resp' = SlotResp("open_project", "", TRUE, "")
  /\ UNCHANGED <<heapVars, callVars, setup, log, window>>

\* the projects in the files that are opened
SavedProjects ==
  {[NewProject EXCEPT !.blocks = {"Block1"}],
   [NewProject EXCEPT !.blocks = {"Block1", "Block2"}, !.ckeys = {"Block1"},
                      !.conns["Block1"] = <<"Block2">>, !.bconn["Block1"] = <<"Block2">>]}

\* MSBWizardMainWindow.__init__
InitWindow ==
  /\ ManipulatorInit("proj", WizardBaseClasses, WizardOperations, FALSE)
  /\ HeapInit
  /\ CallInit
  /\ SetupInit(<<>>)
  /\ project = NewProject
  /\ ui = NewUI({})
  /\ window = SetupConnections(NewWindow)
  /\ resp = NoResp

NextWindow ==
  \/ \E add_existing \in {"raise", "replace"} : AddBlock(add_existing)
  \/ \E block_name \in BlockNames : RemoveBlock(block_name)
  \/ NewProjectSlot
  \/ \E p \in SavedProjects : OpenProject(p)

SpecWindow == InitWindow /\ [][NextWindow]_vars

----------------------------------------------------------------------------
(* What the claims speak of *)

IsSingle(req) == req.isdict /\ req.operation # Absent
IsBatch(req) == req.isdict /\ req.operation = Absent /\ Len(Entries(req)) > 0

\* the single request, or the sub-requests of the batch, by position
SubsOf(req) ==
  IF IsSingle(req) THEN <<[id |-> "", sub |-> TopAsSub(req)]>>
  ELSE IF IsBatch(req) THEN Entries(req) ELSE <<>>

\* the i-th of them was answered with an envelope, and that envelope
Answered(i) ==
  \/ IsSingle(request) /\ ret.kind = "envelope"
  \/ IsBatch(request) /\ ret.kind = "mapping" /\ i <= Len(ret.results)
EnvelopeOf(i) == IF ret.kind = "envelope" THEN ret.env ELSE ret.results[i].env
\* execute was called for it
Called(i) == \E c \in 1..Len(calls) : calls[c].id = SubsOf(request)[i].id

\* every envelope that the call returned
ReturnedEnvelopes ==
  IF ret.kind = "envelope" THEN {ret.env}
  ELSE IF ret.kind = "mapping" THEN {ret.results[i].env : i \in 1..Len(ret.results)}
  ELSE {}

ValidMethodType(sub) == sub.method = Absent \/ TypeOf(sub.method) \in {"str", "NoneType"}
ValidAttributesType(sub) ==
  sub.attributes = Absent \/ TypeOf(sub.attributes) \in {"dict", "NoneType"}
NamesOperation(sub) == sub.operation \in StrVals /\ sub.operation # ""
Registered(sub) == NamesOperation(sub) /\ HasOp(operations, sub.operation)
\* the object a request is about: its own, or else the managing object
ResolvedObject(sub) ==
  IF sub.obj \notin {Absent, None} THEN sub.obj ELSE managing_object

----------------------------------------------------------------------------
(* C1: an exception raised inside execute is caught: the request's envelope  *)
(* is {status: false, object: the resolved object, method: null, result:    *)
(* null, error: the exception's message}, and what process_request raises,  *)
(* if anything, is never that exception.                                    *)
C1_HandlerExceptionCaught ==
  pc = "returned" =>
    \A c \in 1..Len(calls) :
      calls[c].out.raises =>
        /\ calls[c].env = [status |-> PyFalse, object |-> ResolvedObject(calls[c].req),
                           method |-> None, result |-> None, error |-> calls[c].out.msg]
        /\ ret.kind = "envelope" => ret.env = calls[c].env
        /\ ret.kind = "mapping" =>
             \E i \in 1..Len(ret.results) :
               ret.results[i].id = calls[c].id /\ ret.results[i].env = calls[c].env
        /\ ret.kind = "raise" => ret.exc # calls[c].out.msg

C1_Witness ==
  /\ pc = "returned"
  /\ Len(calls) = 1 /\ calls[1].out.raises
  /\ ret.kind = "envelope" /\ ret.env.error = "boom" /\ ret.env.object = "proj"

----------------------------------------------------------------------------
(* C2 as stated: process_request never raises, whatever the request is.     *)
C2_NeverRaises == pc = "returned" => ret.kind # "raise"

(* C2 as amended: process_request raises when the request is not a dict,    *)
(* and otherwise only when an "operation" value cannot be used as a table   *)
(* key; a dict request whose "method" or "attributes" has an invalid type   *)
(* is answered with a status=false envelope and no handler is invoked.      *)
C2_MalformedReported ==
  pc = "returned" =>
    /\ ~request.isdict => ret.kind = "raise"
    /\ ret.kind = "raise" /\ request.isdict =>
         \E i \in 1..Len(SubsOf(request)) :
            ~Hashable(PyGet(SubsOf(request)[i].sub.operation))
    /\ \A i \in 1..Len(SubsOf(request)) :
         LET sub == SubsOf(request)[i].sub
         IN sub.isdict /\ sub.operation # Absent
            /\ (~ValidMethodType(sub) \/ ~ValidAttributesType(sub)) =>
              /\ ~Called(i)
              /\ IsSingle(request) => ret.kind = "envelope"
              /\ Answered(i) => /\ EnvelopeOf(i).status = PyFalse
                                /\ EnvelopeOf(i).error \notin {Absent, None}

C2_Witness ==
  /\ pc = "returned"
  /\ request.isdict /\ request.operation = "L1"
  /\ ret.kind = "raise"

----------------------------------------------------------------------------
(* C3: every returned envelope has the keys status, object, method and      *)
(* result, a boolean status, and the key error exactly when status is       *)
(* false.                                                                   *)
C3_EnvelopeShape ==
  pc = "returned" =>
    \A env \in ReturnedEnvelopes :
      /\ env.status \in BoolVals
      /\ env.object # Absent /\ env.method # Absent /\ env.result # Absent
      /\ env.error # Absent <=> env.status = PyFalse

----------------------------------------------------------------------------
(* C4: a request dict without an "operation" key is answered with one       *)
(* status=false envelope whose object is the request's "obj" (null when     *)
(* absent) and whose error is not null.                                     *)
C4_MissingOperationEchoesObj ==
  pc = "returned" /\ request.isdict /\ request.operation = Absent /\ request.batch = <<>> =>
    /\ ret.kind = "envelope"
    /\ ret.env.status = PyFalse
    /\ ret.env.object = PyGet(request.obj)
    /\ ret.env.error \notin {Absent, None}

----------------------------------------------------------------------------
(* C5: a request that names an operation that is not in the operations      *)
(* table is answered with {status: false, object: its obj or null, method:  *)
(* null, result: null, error: "Operation '<name>' not registered"}, whether *)
(* or not a managing object is set, and no execute is invoked.  The type    *)
(* validation of "method" and "attributes" comes before the table lookup:   *)
(* a request that fails it gets the same envelope with the validation's     *)
(* error text.                                                              *)
NotRegisteredEnvelope(sub) ==
  [status |-> PyFalse, object |-> PyGet(sub.obj), method |-> None, result |-> None,
   error |-> "Operation '" \o sub.operation \o "' not registered"]

C5_UnregisteredOperation ==
  pc = "returned" =>
    \A i \in 1..Len(SubsOf(request)) :
      LET sub == SubsOf(request)[i].sub
      IN sub.isdict /\ NamesOperation(sub) /\ ~HasOp(operations, sub.operation) =>
           /\ ~Called(i)
           /\ calls = <<>> \/ IsBatch(request)
           /\ IsSingle(request) => ret.kind = "envelope"
           /\ Answered(i) =>
                IF ValidMethodType(sub) /\ ValidAttributesType(sub)
                THEN EnvelopeOf(i) = NotRegisteredEnvelope(sub)
                ELSE /\ [EnvelopeOf(i) EXCEPT !.error = ""]
                          = [NotRegisteredEnvelope(sub) EXCEPT !.error = ""]
                     /\ EnvelopeOf(i).error \in
                          {InvalidMethodMsg(sub.method), InvalidAttributesMsg(sub.attributes)}

(* C5 as stated: every request that names an unregistered operation is      *)
(* answered with exactly the "not registered" envelope, whatever the types  *)
(* of its "method" and "attributes".                                        *)
C5_UnregisteredAnyRequest ==
  pc = "returned" /\ IsSingle(request) /\ NamesOperation(request)
  /\ ~HasOp(operations, request.operation) =>
    /\ ret.kind = "envelope"
    /\ ret.env = NotRegisteredEnvelope(request)

C5_Witness ==
  /\ pc = "returned"
  /\ IsSingle(request) /\ request.operation = "noop" /\ request.obj = "cont"
  /\ managing_object = "proj" /\ operations # <<>>
  /\ ret.kind = "envelope" /\ ret.env.error = "Operation 'noop' not registered"

----------------------------------------------------------------------------
(* C6: execute is given the request's "obj" when that is present and not    *)
(* null, and the managing object otherwise; when both are null, execute is  *)
(* not invoked and the request is answered with a status=false envelope.    *)
C6_TargetObject ==
  pc = "returned" =>
    /\ \A c \in 1..Len(calls) :
         /\ calls[c].args.obj # None
         /\ calls[c].args.obj =
              IF calls[c].req.obj \notin {Absent, None} THEN calls[c].req.obj
              ELSE managing_object
    /\ \A i \in 1..Len(SubsOf(request)) :
         LET sub == SubsOf(request)[i].sub
         IN sub.isdict /\ Registered(sub) /\ sub.obj \in {Absent, None}
            /\ managing_object = None =>
              /\ ~Called(i)
              /\ IsSingle(request) => ret.kind = "envelope"
              /\ Answered(i) => EnvelopeOf(i).status = PyFalse

C6_Witness ==
  /\ pc = "returned"
  /\ managing_object = "proj"
  /\ Len(calls) = 1
  /\ calls[1].req.obj = "cont" /\ calls[1].args.obj = "cont"

----------------------------------------------------------------------------
(* C7: with strict type-checking, a request whose resolved object's type    *)
(* has no registry entry is answered with a status=false envelope and       *)
(* execute is not invoked, and a request whose type has an entry passes the *)
(* check and is dispatched; without strict type-checking every non-null     *)
(* object passes, whatever the registry holds.  A request that has passed   *)
(* the check goes to execute, or is turned down for its attributes alone.   *)
PassesTypeCheck(i) ==
  \/ Called(i)
  \/ Answered(i) /\ EnvelopeOf(i).error = "Invalid attributes type"

C7_StrictTypeCheck ==
  pc = "returned" =>
    \A i \in 1..Len(SubsOf(request)) :
      LET sub == SubsOf(request)[i].sub
          obj == ResolvedObject(sub)
      IN sub.isdict /\ Registered(sub) /\ ValidMethodType(sub) /\ ValidAttributesType(sub)
         /\ obj # None /\ (IsBatch(request) => ret.kind = "mapping") =>
           IF strict_type_check /\ TypeOf(obj) \notin DOMAIN registry
           THEN /\ ~Called(i)
                /\ Answered(i)
                /\ EnvelopeOf(i).status = PyFalse
                /\ EnvelopeOf(i).error = "Unsupported object type: <class '" \o TypeOf(obj) \o "'>"
           ELSE /\ PassesTypeCheck(i)
                /\ sub.attributes # None => Called(i)

C7_Witness ==
  /\ pc = "returned"
  /\ strict_type_check
  /\ IsSingle(request) /\ request.obj = "cont"
  /\ "WizardContainer" \notin DOMAIN registry
  /\ "WizardProject" \in DOMAIN registry
  /\ calls = <<>>
  /\ ret.kind = "envelope"
  /\ ret.env.error = "Unsupported object type: <class 'WizardContainer'>"

----------------------------------------------------------------------------
----------------------------------------------------------------------------
(* C9 as stated: the payload holds the resolved object; it holds nothing    *)
(* else when the request supplies neither "attributes" nor "method", a copy *)
(* of the attributes when the request supplies a mapping (an empty one      *)
(* too), and the method name when the request supplies one.                 *)
C9_PayloadByKeyPresence ==
  pc = "returned" =>
    \A c \in 1..Len(calls) :
      LET sub == calls[c].req
          args == calls[c].args
      IN /\ args.obj = ResolvedObject(sub)
         /\ sub.attributes = Absent /\ sub.method = Absent =>
              args.attributes = Absent /\ args.method = Absent
         /\ TypeOf(sub.attributes) = "dict" =>
              /\ args.attributes \in CopyDicts
              /\ dicts[args.attributes] = DictContent(sub.attributes)
         /\ TypeOf(sub.method) = "str" => args.method = sub.method

(* C9 as amended: the payload holds the resolved object; it holds an        *)
(* attributes entry exactly when the request's attributes is a non-empty    *)
(* mapping or its method is a non-empty string, and that entry is a copy of *)
(* the request's attributes (an empty mapping when the request has none);   *)
(* it holds a method entry, the request's method, exactly when that is a    *)
(* non-empty string.                                                        *)
NonEmptyMapping(v) == TypeOf(v) = "dict" /\ DictContent(v) # EmptyContent
NonEmptyString(v) == TypeOf(v) = "str" /\ v # ""

C9_PayloadByTruthiness ==
  pc = "returned" =>
    \A c \in 1..Len(calls) :
      LET sub == calls[c].req
          args == calls[c].args
      IN /\ args.obj = ResolvedObject(sub)
         /\ args.attributes # Absent <=>
              NonEmptyMapping(sub.attributes) \/ NonEmptyString(sub.method)
         /\ args.attributes # Absent =>
              /\ args.attributes \in CopyDicts
              /\ args.attributes # sub.attributes
              /\ dicts[args.attributes] =
                   IF sub.attributes = Absent THEN EmptyContent ELSE DictContent(sub.attributes)
         /\ args.method # Absent <=> NonEmptyString(sub.method)
         /\ args.method # Absent => args.method = sub.method

C9_Witness ==
  /\ pc = "returned"
  /\ Len(calls) = 1
  /\ calls[1].req.attributes = "D0" /\ calls[1].req.method = Absent
  /\ calls[1].args = [obj |-> "proj", attributes |-> Absent, method |-> Absent]

----------------------------------------------------------------------------
(* C10: a request whose "attributes" is null and whose "method" is a string *)
(* or null is valid: when its operation is registered and an object is      *)
(* resolvable, execute is invoked.                                          *)
C10_NullAttributesDispatched ==
  pc = "returned" =>
    \A i \in 1..Len(SubsOf(request)) :
      LET sub == SubsOf(request)[i].sub
          obj == ResolvedObject(sub)
      IN sub.isdict /\ sub.attributes = None
         /\ (sub.method = Absent \/ TypeOf(sub.method) \in {"str", "NoneType"})
         /\ Registered(sub) /\ obj # None
         /\ (strict_type_check => TypeOf(obj) \in DOMAIN registry)
         /\ (IsBatch(request) => ret.kind = "mapping") =>
           Called(i)

----------------------------------------------------------------------------
(* C11 as stated: a batch is answered with a mapping that holds exactly one *)
(* envelope per input id, in the input's order; an entry whose value is not *)
(* a dict gets a status=false envelope under its own id and the other ids   *)
(* get their own envelopes.                                                 *)
IdsInOrder(results, entries) ==
  /\ Len(results) = Len(entries)
  /\ \A i \in 1..Len(entries) : results[i].id = entries[i].id

HasNonDictEntry(req) == \E i \in 1..Len(Entries(req)) : ~Entries(req)[i].sub.isdict

----------------------------------------------------------------------------
(* C12: a batch is processed entry by entry in input order and is not       *)
(* atomic: an entry that fails (missing operation, invalid type, a handler  *)
(* that returns status=false or raises) stops nothing: every entry is       *)
(* dispatched to its handler exactly when it would be on its own, the calls *)
(* are made in input order, and every change that a handler made to its     *)
(* object is still there when the batch returns.                            *)
CallsInOrder(cs, entries) ==
  \A c \in 1..Len(cs), d \in 1..Len(cs) :
    c < d => \E i \in 1..Len(entries), j \in 1..Len(entries) :
               i < j /\ entries[i].id = cs[c].id /\ entries[j].id = cs[d].id

ChangesOf(cs, o) == Cardinality({c \in 1..Len(cs) : cs[c].args.obj = o /\ cs[c].out.effect})

BatchReturns ==
  /\ pc = "idle" /\ pc' = "returned"
  /\ IsBatch(request') /\ ~HasNonDictEntry(request') /\ ret'.kind = "mapping"

----------------------------------------------------------------------------
(* C13 as stated: for a batch whose entries all have an "operation" key,    *)
(* the envelope under each id is the envelope that the entry gets when the  *)
(* entries are issued one by one, in the batch's order and from the same    *)
(* state, and both runs end in the same state of the router and of the      *)
(* target objects.                                                          *)
PlanDone == plan.active /\ plan.i > Len(plan.batch.batch) /\ pc = "idle"
AllHaveOperation(req) ==
  \A i \in 1..Len(req.batch) : req.batch[i].sub.isdict /\ req.batch[i].sub.operation # Absent
AllHashable(req) ==
  \A i \in 1..Len(req.batch) : Hashable(PyGet(req.batch[i].sub.operation))

SameAsOneByOne ==
  /\ plan.expect.kind = "mapping"
  /\ Len(plan.expect.results) = Len(plan.got)
  /\ \A i \in 1..Len(plan.got) :
       /\ plan.got[i].kind = "envelope"
       /\ plan.expect.results[i].id = plan.batch.batch[i].id
       /\ plan.expect.results[i].env = plan.got[i].env
  /\ plan.after = objects
  /\ plan.router = routerVars

FirstUnhashable(req) ==
  CHOOSE k \in 1..Len(req.batch) :
    /\ ~Hashable(PyGet(req.batch[k].sub.operation))
    /\ \A j \in 1..(k - 1) : Hashable(PyGet(req.batch[j].sub.operation))

----------------------------------------------------------------------------
(* C14: register_operation raises when the name is not a string or is the   *)
(* empty string and when the handler has no execute, get_methods_for_type   *)
(* raises when the type has no registry entry, and a call that raises       *)
(* leaves the operations table and the registry as they were.               *)
C14_SetupErrorsRaised ==
  [][/\ setup'.call = "register_operation" =>
          LET operation == setup'.args[1]
              super_instance == setup'.args[2]
          IN TypeOf(operation) # "str" \/ operation = "" \/ super_instance \notin Handlers
               => setup'.raised # ""
     /\ setup'.call = "get_methods_for_type" /\ setup'.args[1] \notin DOMAIN registry
          => setup'.raised # ""
     /\ setup' # setup /\ setup'.raised # ""
          => operations' = operations /\ registry' = registry]_vars

C14_Witness ==
  /\ setup.call = "register_operation"
  /\ setup.args = <<"manage", "int:7">>
  /\ setup.raised = "Super-instance for 'manage' must have 'execute' method"
  /\ ~HasOp(operations, "manage")
  /\ "int" \notin DOMAIN registry

----------------------------------------------------------------------------
(* C15: get_supported_operations returns exactly the names that were        *)
(* registered (at construction or by register_operation) since the table    *)
(* was last cleared, each once, and changes nothing, so that asking again   *)
(* gives the same names; a request for a name that was registered more than *)
(* once goes to the handler of the last registration.                       *)
AllRegistered == log.base \o log.regs
LastRegistered(name) ==
  AllRegistered[CHOOSE i \in 1..Len(AllRegistered) :
                  /\ AllRegistered[i].name = name
                  /\ \A j \in (i + 1)..Len(AllRegistered) : AllRegistered[j].name # name].handler

C15_SupportedOperations ==
  [][/\ setup'.call = "get_supported_operations" =>
          /\ SeqToSet(setup'.names) = {AllRegistered[i].name : i \in 1..Len(AllRegistered)}'
          /\ \A i \in 1..Len(setup'.names), j \in 1..Len(setup'.names) :
               i # j => setup'.names[i] # setup'.names[j]
     /\ setup'.call = "get_supported_operations" /\ setup' # setup =>
          UNCHANGED <<routerVars, heapVars, callVars, log>>
     /\ setup'.call = "get_supported_operations" /\ setup.call = "get_supported_operations" =>
          setup'.names = setup.names
     /\ pc' = "returned" /\ Len(calls') = 1 =>
          calls'[1].handler = LastRegistered(request.operation)']_vars

C15_Witness ==
  /\ setup.call = "get_supported_operations"
  /\ setup.names = <<"manage">>
  /\ Len(log.regs) = 2
  /\ log.regs[1] = [name |-> "manage", handler |-> "H1"]
  /\ log.regs[2] = [name |-> "manage", handler |-> "H2"]
  /\ pc = "returned" /\ request.operation = "manage"
  /\ Len(calls) = 1 /\ calls[1].handler = "H2"

----------------------------------------------------------------------------
(* C16: when register_operation(x, H) has succeeded and the next call is    *)
(* get_methods_for_type(type(H)), with no update_registry in between, the   *)
(* query succeeds and returns exactly the methods of H itself: the bound    *)
(* methods of H whose names do not start with a double underscore.          *)
C16_RegisterThenQuery ==
  [][/\ setup.call = "register_operation" /\ setup.raised = ""
     /\ setup'.call = "get_methods_for_type"
     /\ setup'.args[1] = TypeOf(setup.args[2])
     => /\ setup'.raised = ""
        /\ setup'.methods = HandlerMethods(setup.args[2])]_vars

----------------------------------------------------------------------------
(* C17: in every reachable state the registry is what a fresh build from    *)
(* the current operations table and base-class list gives; it holds no      *)
(* entry for a handler type that no operation is bound to any more.         *)
C17_RegistryIsFreshBuild ==
  /\ registry = GetMethodRegistry(operations, base_classes)
  /\ \A t \in DOMAIN registry :
       \/ t \in SeqToSet(base_classes)
       \/ \E i \in 1..Len(operations) : TypeOf(operations[i].handler) = t

----------------------------------------------------------------------------
(* C18: set_managing_object(obj) makes obj the managing object, which the   *)
(* requests without an "obj" are then executed against; if obj is not null  *)
(* and its type is not in the base-class list, the type is appended and the *)
(* registry becomes a fresh build from the operations table and the new     *)
(* list; otherwise the list and the registry stay as they are; the          *)
(* operations table stays as it is in both cases.                           *)
C18_SetManagingObject ==
  [][setup'.call = "set_managing_object" =>
       LET obj == setup'.args[1]
       IN /\ managing_object' = obj
          /\ operations' = operations
          /\ IF obj # None /\ TypeOf(obj) \notin SeqToSet(base_classes)
             THEN /\ base_classes' = Append(base_classes, TypeOf(obj))
                  /\ registry' = GetMethodRegistry(operations, base_classes')
             ELSE base_classes' = base_classes /\ registry' = registry
          /\ \A c \in 1..Len(calls') :
               calls'[c].req.obj = Absent => calls'[c].args.obj = obj]_vars

C18_Witness ==
  /\ setup.call = "set_managing_object" /\ setup.args = <<"proj">>
  /\ managing_object = "proj"
  /\ base_classes = <<"WizardProject">>
  /\ "WizardProject" \in DOMAIN registry
  /\ pc = "returned" /\ request.obj = Absent
  /\ Len(calls) = 1 /\ calls[1].args.obj = "proj"

----------------------------------------------------------------------------
(* C19: a process_request call that returns a status=false envelope, alone  *)
(* or under an id of a batch, leaves the operations table, the registry,    *)
(* the base-class list and the managing-object reference as they were.      *)
C19_ErrorPathsKeepRouter ==
  [][/\ pc = "idle" /\ pc' = "returned"
     /\ \E env \in ReturnedEnvelopes' : env.status = PyFalse
     => /\ operations' = operations
        /\ registry' = registry
        /\ base_classes' = base_classes
        /\ managing_object' = managing_object]_vars

C19_Witness ==
  /\ pc = "returned"
  /\ ret.kind = "mapping" /\ Len(ret.results) = 2
  /\ ret.results[1].env.status = PyTrue
  /\ ret.results[2].env.status = PyFalse
  /\ Len(calls) = 2 /\ calls[2].out.raises
  /\ managing_object = None /\ calls[2].args.obj = "proj"

----------------------------------------------------------------------------
(* C20: in every reachable state, the state right after construction        *)
(* included, every entry of the operations table has a non-empty string as  *)
(* its name and a handler with an execute method.                           *)
C20_OperationsWellFormed ==
  \A i \in 1..Len(operations) :
    /\ TypeOf(operations[i].name) = "str"
    /\ operations[i].name # ""
    /\ operations[i].handler \in Handlers

----------------------------------------------------------------------------
(* C21: a call of UIManager._update_position whose attributes hold a       *)
(* "position" that is a tuple or list of two elements sets the block's     *)
(* position to it and returns a status=true response whose result is the   *)
(* new position; a call with no attributes or with no "position" returns   *)
(* the status=false response "Position not provided" and leaves the        *)
(* block's position as it was.                                             *)
C21_UpdatePosition ==
  [][resp'.call = "_update_position" =>
       IF /\ resp'.attrs = "dict"
          /\ resp'.position.kind \in {"tuple", "list"}
          /\ Len(resp'.position.val) = 2
       THEN /\ resp'.status
            /\ resp'.result = "position"
            /\ project'.pos[resp'.name] = resp'.position.val
       ELSE (resp'.attrs = "None" \/ resp'.position.kind = "absent") =>
              /\ ~resp'.status
              /\ resp'.error = "Position not provided"
              /\ project'.pos = project.pos]_vars

----------------------------------------------------------------------------
(* C22: in every state reached by create and delete actions on blocks and  *)
(* connect and disconnect actions on the project, every source and every   *)
(* target that appears in project.connections names a block that is in     *)
(* project.blocks.                                                         *)
C22_ConnectionsNameBlocks ==
  \A source \in project.ckeys :
    \A i \in 1..Len(project.conns[source]) :
      /\ source \in project.blocks
      /\ project.conns[source][i] \in project.blocks

----------------------------------------------------------------------------
\* project.connections[s] and blocks[s].connections hold the same targets, for
\* every block s
InSync(p) ==
  \A s \in p.blocks :
    SeqToSet(p.bconn[s]) = IF s \in p.ckeys THEN SeqToSet(p.conns[s]) ELSE {}

\* no list of connections holds a target twice
NoDuplicates(p) ==
  \A s \in BlockNames :
    /\ Cardinality(SeqToSet(p.conns[s])) = Len(p.conns[s])
    /\ Cardinality(SeqToSet(p.bconn[s])) = Len(p.bconn[s])

Connected(p, source, target) ==
  source \in p.ckeys /\ target \in SeqToSet(p.conns[source])

----------------------------------------------------------------------------
(* C24: a call of BlockManager._manage_connections or _manage_wizardblock  *)
(* that returns a status=false response leaves project.blocks,             *)
(* project.connections and the connections list of every block as they     *)
(* were before the call.                                                   *)
C24_FailedCallKeepsProject ==
  [][/\ resp'.call \in {"_manage_connections", "_manage_wizardblock"}
     /\ ~resp'.status
     => project' = project]_vars

----------------------------------------------------------------------------
\* the items that the UIManager tracks
TrackedItems(u) ==
  ({u.block_items[n] : n \in BlockNames} \cup {u.lines[k] : k \in BlockPairs}) \ {NoItem}

(* C25: in every reachable state of the UIManager every (source, target)   *)
(* key of _connection_lines has its source and its target in _block_items, *)
(* and every item that is in the scene is the item tracked under its name  *)
(* or key.                                                                 *)
C25_SceneIsTracked ==
  /\ \A k \in BlockPairs :
       ui.lines[k] # NoItem =>
         ui.block_items[k[1]] # NoItem /\ ui.block_items[k[2]] # NoItem
  /\ ui.scene = TrackedItems(ui)

----------------------------------------------------------------------------
\* the keys of _connection_lines
LineKeys(u) == {k \in BlockPairs : u.lines[k] # NoItem}

(* C26: with the project as the managing object, a successful             *)
(* _refresh_wizardblock of a rendered block leaves the set of keys of      *)
(* _connection_lines as it was, for the connections in which the block is  *)
(* the source and those in which it is the target; a refresh of a block    *)
(* that is not rendered returns status=false and changes nothing.          *)
C26_RefreshKeepsLines ==
  [][/\ resp'.call = "_render_wizardblock" /\ resp'.action = "refresh"
     /\ ManagesProject
     => IF ui.block_items[resp'.name] # NoItem
        THEN resp'.status => LineKeys(ui') = LineKeys(ui)
        ELSE ~resp'.status /\ ui' = ui]_vars

----------------------------------------------------------------------------
(* C27: after construction and any number of new_project calls, the        *)
(* triggered signal of every menu action, the clicked signal of the        *)
(* project explorer, the tabCloseRequested signal of the tab widget and    *)
(* the project_updated signal are each connected to their slot exactly     *)
(* once.                                                                   *)
C27_SignalsConnectedOnce ==
  /\ \A a \in MenuActions : window.triggered[a] = 1
  /\ window.clicked = 1
  /\ window.tabCloseRequested = 1
  /\ window.project_updated = 1

----------------------------------------------------------------------------
(* C28: after any add_block and remove_block calls, add_block chooses a    *)
(* name that no block of the project has, succeeds, and makes the project  *)
(* hold exactly one block more.                                            *)
C28_AddBlockAddsOne ==
  [][resp'.call = "add_block" =>
       /\ resp'.name \notin project.blocks
       /\ resp'.status
       /\ Cardinality(project'.blocks) = Cardinality(project.blocks) + 1]_vars

----------------------------------------------------------------------------
(* C29: after any add_block, remove_block, new_project and open_project    *)
(* calls, the block items in the scene of the window are exactly the items *)
(* of the blocks of the current project, one for every block.              *)
C29_SceneShowsProject ==
  /\ \A n \in project.blocks : ui.block_items[n] # NoItem
  /\ BlockItemsIn(ui.scene) = {ui.block_items[n] : n \in project.blocks}

----------------------------------------------------------------------------
(* Strict type checking and the managing object's type *)

\* an instance of a class that has no public methods, such as object()
PlainObject == "plain"
ManagingObjects == {None, "proj", "cont", PlainObject}

\* requests for the registered operation and for one that is not registered,
\* with and without an explicit obj
StrictRequests ==
  {Request(op, ob, me, Absent, <<>>) :
     op \in {"manage", "noop"}, ob \in {Absent, None, "proj"}, me \in {Absent, "m"}}
StrictOutcomes == {OkOutcome, FailOutcome}

\* a router with strict type checking whose managing object is given at
\* construction and replaced later
InitStrict ==
  /\ \E mo \in ManagingObjects :
       ManipulatorInit(mo, <<>>, <<[name |-> "manage", handler |-> "H1"]>>, TRUE)
  /\ HeapInit
  /\ CallInit
  /\ AppInit
  /\ SetupInit(<<>>)

NextStrict ==
  \/ /\ pc = "idle"
     /\ \E req \in StrictRequests :
          \E outs \in OutcomeChoices(req, StrictOutcomes) : ProcessRequest(req, outs)
     /\ UNCHANGED <<plan, setup, log, appVars>>
  \/ Return /\ UNCHANGED <<plan, setup, log, appVars>>
  \/ (\E obj \in ManagingObjects : SetManagingObject(obj)) /\ UNCHANGED <<setup, log, appVars>>
  \/ UpdateRegistry(<<>>, FALSE) /\ UNCHANGED <<setup, log, appVars>>

SpecStrict == InitStrict /\ [][NextStrict]_vars

\* C30: with strict type checking, once a managing object is installed, a
\* request for a registered operation that gives no obj (the key is absent or
\* None) is not answered with "Unsupported object type": the type of the
\* managing object is in the base-class list and has an entry in the registry,
\* whatever public methods that type has
C30_ManagingObjectSupported ==
  (/\ pc = "returned"
   /\ strict_type_check
   /\ managing_object # None
   /\ request.isdict
   /\ request.batch = <<>>
   /\ HasOp(operations, request.operation)
   /\ request.obj \in {Absent, None})
    => /\ TypeOf(managing_object) \in SeqToSet(base_classes)
       /\ TypeOf(managing_object) \in DOMAIN registry
       /\ ~(/\ ret.kind = "envelope"
            /\ ret.env.status = PyFalse
            /\ ret.env.error = "Unsupported object type: " \o ClassRepr(managing_object))

====
